---- MODULE Spec2Model ----
(***************************************************************************)
(* A model of the tasbot player (playfun.cc).                              *)
(*                                                                         *)
(* The player's state is large (a movie of hundreds of inputs, forty       *)
(* futures of up to 800 inputs each), so the module holds several          *)
(* specifications, each a projection of the same program on the part of    *)
(* the state its properties read.  What a projection does not track is an  *)
(* input of its actions, drawn with \E from a small set.                   *)
(*                                                                         *)
(*   SpecCtor    PlayFun::PlayFun alone (the two warmup loops), for every  *)
(*               recorded movie up to MaxSolLen inputs and every           *)
(*               fastforward up to MaxFF.                                  *)
(*   Spec        the constructor followed by Master's loop: movie,         *)
(*               subtitles, checkpoints, emulator state, watermark and     *)
(*               the backtrack timer.  The futures pool is not tracked:    *)
(*               the next a round commits and the replacements a           *)
(*               backtrack receives are inputs.                            *)
(*   SpecPool    the futures pool across TakeBestAmong and                 *)
(*               PopulateFutures.  A future's inputs are tracked by their  *)
(*               length; the totals ParallelStep returns are inputs.       *)
(*   SpecSelect  ParallelStep's choice of best_next_idx from the scores    *)
(*               of the candidate nexts.                                   *)
(*   SpecMotif   the reweighting of the motifs at the end of               *)
(*               TakeBestAmong, with exact weights base * (5/4)^ups.       *)
(*   SpecInputs  Dualize and ReverseRange, each called twice on a span of  *)
(*               a vector of inputs.                                       *)
(*   SpecObserve WeightedObjectives::Observe, called up to MaxObserves     *)
(*               times on two objectives.                                  *)
(*   SpecObjectives  WeightedLess and Evaluate on two memories, for every  *)
(*               objective set over three objectives.                      *)
(*   SpecRound   one selector round, computed by the local loop and by     *)
(*               one request per next answered in any order.               *)
(*   SpecMain    main's choice between Master and Helper, and who          *)
(*               services the batches of requests of a round.              *)
(*   SpecHelper  Helper's loop over its connections, with the request      *)
(*               cache.                                                    *)
(*   SpecImprove DoTryImprove on one improve-segment request, for each     *)
(*               approach, up to MaxImproveIters iterations.               *)
(*   SpecOrder   Order on one objective, the memories both ways round.     *)
(*   SpecNorm    GetNormalizedValue between Observe calls.                 *)
(*   SpecWeigh   WeightByExamples on a trajectory of up to MaxTrajectory   *)
(*               memories.                                                 *)
(*   SpecFile    SaveToFile followed by LoadFromFile on one objective      *)
(*               set.                                                      *)
(*   SpecTrial   Spec with the trial of a backtrack chosen by              *)
(*               ParallelStep's scan of the trial's scores.                *)
(*   SpecNexts   MakeNexts on forty futures and a library of up to         *)
(*               MaxLibrary motifs, the weights kept as doubles.           *)
(*   SpecPath    ScoreIntegral and IsImprovement over paths of up to       *)
(*               MaxPath inputs, the sums kept as doubles.                 *)
(***************************************************************************)
EXTENDS Integers, Sequences, FiniteSets, TLC

VARIABLES
  \* ---- PlayFun fields and constructor / Master locals (SpecCtor, Spec)
  pc,                      \* position in PlayFun::PlayFun / Master
  solution,                \* vector<uint8> solution (the recorded movie)
  fastforward,             \* config.fastforward
  start,                   \* the constructor's local `start`
  watermark,               \* size_t watermark
  emu,                     \* the live emulator state
  movie,                   \* vector<uint8> movie
  subtitles,               \* vector<string> subtitles
  checkpoints,             \* vector<Checkpoint> checkpoints
  memories,                \* memories.size(): the number of Observe calls
  rounds_until_backtrack,  \* Master's local
  iters,                   \* Master's loop counter
  bt_start,                \* MaybeBacktrack's local copy `start`
  tryvec,                  \* MaybeBacktrack's local tryvec
  trysplanations,          \* MaybeBacktrack's local trysplanations
  \* ---- the futures pool (SpecPool)
  ppc,                     \* position in Master / TakeBestAmong
  futures,                 \* vector<Future> futures
  futuretotals,            \* TakeBestAmong's local futuretotals
  dropped,                 \* successive values of the local worst_total
  chopfutures,             \* TakeBestAmong's parameter
  prounds,                 \* number of TakeBestAmong calls so far
  \* ---- ParallelStep (SpecSelect)
  spc,                     \* position in ParallelStep
  scores,                  \* per next: immediate_score and future_score
  best_next_idx,           \* *best_next_idx (0-based, as in the source)
  best_score,              \* the local best_score
  \* ---- the motif weights (SpecMotif)
  mpc,                     \* position in TakeBestAmong's reweighting
  mweights,                \* per motif: Info.weight, see Info
  lastw,                   \* mweights before the last reweighting
  lastnext,                \* the motif last committed (0: not a motif)
  lastup,                  \* whether `newval > oldval` held for it
  mrounds,                 \* number of reweightings so far
  \* ---- Dualize and ReverseRange (SpecInputs)
  vpc,                     \* how many times the operation has run
  vop,                     \* which operation: "Dualize" or "ReverseRange"
  vec,                     \* the vector *v both work on
  vec0,                    \* *v before the first call
  vmid,                    \* *v after the first call
  vstart,                  \* the argument start
  vlen,                    \* the argument len
  \* ---- WeightedObjectives::Observe (SpecObserve)
  obpc,                    \* "ready" while the objectives can observe
  observations,            \* per objective: Info.observations
  nobserved,               \* number of Observe calls so far
  \* ---- WeightedLess and Evaluate (SpecObjectives)
  opc,                     \* which calls have been made
  weighted,                \* map from objective to Info.weight
  mem1,                    \* the first memory
  mem2,                    \* the second memory
  wless12,                 \* WeightedLess(mem1, mem2)
  wless21,                 \* WeightedLess(mem2, mem1)
  eval12,                  \* Evaluate(mem1, mem2), times EvalScale
  \* ---- one selector round, locally and through helpers (SpecRound)
  rpc,                     \* position in the two ParallelStep builds
  rstate,                  \* current_state
  rnexts,                  \* nexts
  rfutures,                \* futures
  requests,                \* the batch of HelperRequest
  work,                    \* GetAnswers' work: per request, its response
  completed,               \* the requests in the order they were answered
  lbest,                   \* *best_next_idx of the local build
  ltotals,                 \* *futuretotals of the local build
  rbest,                   \* *best_next_idx of the MARIONET build
  rtotals,                 \* *futuretotals of the MARIONET build
  \* ---- main, Master and the two kinds of batch (SpecMain)
  mbuild,                  \* whether the program was built with MARIONET
  mhelpers,                \* config.helpers.size()
  mrole,                   \* what main has called: Master or Helper
  mbatch,                  \* the last batch of requests and who serviced it
  mbatches,                \* number of batches (or connections) so far
  \* ---- the helper's loop (SpecHelper)
  hpc,                     \* position in Helper's loop
  connected,               \* whether the server holds a connection
  connections,             \* Helper's local connections
  hreq,                    \* the HelperRequest last read
  hres,                    \* the response about to be written
  hfresh,                  \* whether hres was computed for this connection
  reads,                   \* ReadProto calls on this connection
  writes,                  \* WriteProto calls on this connection
  hwrote,                  \* how the last WriteProto went
  hfailed,                 \* the request whose response was not sent
  cache,                   \* RequestCache cache(8), most recent first
  computed,                \* number of responses computed so far
  hfreshids,               \* number of different requests sent so far
  \* ---- the helper's improve-segment work (SpecImprove)
  ipc,                     \* position in DoTryImprove
  ireq,                    \* the TryImproveRequest
  ii,                      \* i, the iterations used
  iinputs,                 \* inputs, the segment being changed
  repls,                   \* repls, the improvements kept
  found,                   \* every pair pushed onto repls, in order
  tried,                   \* tried, the segments already kept
  icalls,                  \* the IsImprovement calls of the last iteration
  ires,                    \* the TryImproveResponse
  \* ---- Order on one objective (SpecOrder)
  ordpc,                   \* position in the two Order calls
  omem1,                   \* mem1
  omem2,                   \* mem2
  oorder,                  \* order, the objective
  oval,                    \* Order(mem1, mem2, order)
  orev,                    \* Order(mem2, mem1, order)
  \* ---- GetNormalizedValue between observations (SpecNorm)
  gpc,                     \* whether GetNormalizedValue has been called
  ginfo,                   \* weighted: each objective's observations
  gobserved,               \* number of Observe calls so far
  gmem,                    \* mem of the last GetNormalizedValue call
  gvalue,                  \* what the last GetNormalizedValue call returned
  \* ---- WeightByExamples on a trajectory (SpecWeigh)
  wpc,                     \* position in WeightByExamples
  wweighted,               \* weighted: each objective's weight
  wmemories,               \* memories, the trajectory
  \* ---- SaveToFile then LoadFromFile (SpecFile)
  fpc,                     \* position in the save and load of an objectives file
  fweighted,               \* weighted of the set that is saved
  fout,                    \* the lines of the file
  floaded,                 \* weighted of the set LoadFromFile returns
  \* ---- MakeNexts (SpecNexts)
  npc,                     \* position in MakeNexts
  nfutures,                \* the inputs of the futures
  nlib,                    \* motifs->motifs, the weight of every motif
  ntodo,                   \* the map todo: next to explanation
  cnexts,                  \* *nexts
  cwhy,                    \* *nextplanations
  \* ---- ScoreIntegral and IsImprovement in doubles (SpecPath)
  qpc,                     \* position in the scoring of a candidate
  qweighted,               \* objectives->weighted, the weights as doubles
  qstart,                  \* start_memory
  qendpath,                \* the memory after each input of improveme
  qnewpath,                \* the memory after each input of the candidate
  qend_integral,           \* end_integral of the request
  qimproved,               \* what IsImprovement returned
  qscore                   \* *score

playerVars == <<pc, solution, fastforward, start, watermark, emu, movie,
                subtitles, checkpoints, memories, rounds_until_backtrack,
                iters, bt_start, tryvec, trysplanations>>
poolVars == <<ppc, futures, futuretotals, dropped, chopfutures, prounds>>
selectVars == <<spc, scores, best_next_idx, best_score>>
motifVars == <<mpc, mweights, lastw, lastnext, lastup, mrounds>>
inputVars == <<vpc, vop, vec, vec0, vmid, vstart, vlen>>
observeVars == <<obpc, observations, nobserved>>
objVars == <<opc, weighted, mem1, mem2, wless12, wless21, eval12>>
oldVars == <<playerVars, poolVars, selectVars, motifVars, inputVars,
             observeVars, objVars>>
roundVars == <<rpc, rstate, rnexts, rfutures, requests, work, completed,
               lbest, ltotals, rbest, rtotals>>
mainVars == <<mbuild, mhelpers, mrole, mbatch, mbatches>>
helperVars ==
  <<hpc, connected, connections, hreq, hres, hfresh,
    reads, writes, hwrote, hfailed, cache, computed, hfreshids>>
improveVars == <<ipc, ireq, ii, iinputs, repls, found, tried, icalls, ires>>
orderVars == <<ordpc, omem1, omem2, oorder, oval, orev>>
normVars == <<gpc, ginfo, gobserved, gmem, gvalue>>
weighVars == <<wpc, wweighted, wmemories>>
fileVars == <<fpc, fweighted, fout, floaded>>
nextsVars == <<npc, nfutures, nlib, ntodo, cnexts, cwhy>>
pathVars ==
  <<qpc, qweighted, qstart, qendpath,
    qnewpath, qend_integral, qimproved, qscore>>
exceptRoundVars ==
  <<mainVars,
    helperVars,
    improveVars,
    orderVars,
    normVars,
    weighVars,
    fileVars,
    nextsVars,
    pathVars>>
exceptMainVars ==
  <<roundVars,
    helperVars,
    improveVars,
    orderVars,
    normVars,
    weighVars,
    fileVars,
    nextsVars,
    pathVars>>
exceptHelperVars ==
  <<roundVars,
    mainVars,
    improveVars,
    orderVars,
    normVars,
    weighVars,
    fileVars,
    nextsVars,
    pathVars>>
exceptImproveVars ==
  <<roundVars,
    mainVars,
    helperVars,
    orderVars,
    normVars,
    weighVars,
    fileVars,
    nextsVars,
    pathVars>>
exceptOrderVars ==
  <<roundVars,
    mainVars,
    helperVars,
    improveVars,
    normVars,
    weighVars,
    fileVars,
    nextsVars,
    pathVars>>
exceptNormVars ==
  <<roundVars,
    mainVars,
    helperVars,
    improveVars,
    orderVars,
    weighVars,
    fileVars,
    nextsVars,
    pathVars>>
exceptWeighVars ==
  <<roundVars,
    mainVars,
    helperVars,
    improveVars,
    orderVars,
    normVars,
    fileVars,
    nextsVars,
    pathVars>>
exceptFileVars ==
  <<roundVars,
    mainVars,
    helperVars,
    improveVars,
    orderVars,
    normVars,
    weighVars,
    nextsVars,
    pathVars>>
exceptNextsVars ==
  <<roundVars,
    mainVars,
    helperVars,
    improveVars,
    orderVars,
    normVars,
    weighVars,
    fileVars,
    pathVars>>
exceptPathVars ==
  <<roundVars,
    mainVars,
    helperVars,
    improveVars,
    orderVars,
    normVars,
    weighVars,
    fileVars,
    nextsVars>>
restVars ==
  <<roundVars,
    mainVars,
    helperVars,
    improveVars,
    orderVars,
    normVars,
    weighVars,
    fileVars,
    nextsVars,
    pathVars>>
moreVars == <<motifVars, inputVars, observeVars, objVars, restVars>>
vars == <<playerVars, poolVars, selectVars, moreVars>>

----------------------------------------------------------------------------
(* Program constants (playfun.cc).                                         *)
NFUTURES == 40
NWEIGHTEDFUTURES == 35
DROPFUTURES == 5
MUTATEFUTURES == 7
INPUTS_PER_NEXT == 10
MINFUTURELENGTH == 50
MAXFUTURELENGTH == 800
CHECKPOINT_EVERY == 100
TRY_BACKTRACK_EVERY == 180
MIN_BACKTRACK_DISTANCE == 300
OBSERVE_EVERY == 10
MOTIF_SIZE == 10
TOTAL_TO_DROP == DROPFUTURES + MUTATEFUTURES

(* Bounds of the model.                                                    *)
MaxSolLen == 4      \* SpecCtor: longest recorded movie (all of them)
MaxFF == 5          \* SpecCtor: largest --fastforward
PlaySolLen == 2     \* Spec: longest recorded movie (all of them)
PlayFF == 2         \* Spec: largest --fastforward
MaxIters == 60      \* Spec: rounds of Master's loop
MaxPoolRounds == 2  \* SpecPool: calls of TakeBestAmong
MaxNexts == 3       \* SpecSelect: candidate nexts of a round
MaxBatches == 8     \* SpecMain: batches of a master, connections of a helper
MaxConnections == 10  \* SpecHelper: connections a helper accepts
MaxReweighs == 2    \* SpecMotif: reweightings in a row
MaxVecLen == 3      \* SpecInputs: longest input vector (all of them)
MaxObserves == 66   \* SpecObserve: calls of Observe

Min(a, b) == IF a < b THEN a ELSE b
Max(a, b) == IF a > b THEN a ELSE b

----------------------------------------------------------------------------
(* The emulator is an external collaborator.  It is deterministic: its     *)
(* state is a function of the inputs stepped since power-on.  The model    *)
(* keeps a rolling hash of that input history.                             *)
EmuModulus == 65521
EmuInitial == 1
CachingStep(s, input) == (s * 31 + input + 1) % EmuModulus

\* Stepping through `inputs` in order, from state s.  The sequence is
\* halved so that the evaluation stays shallow; the order is kept.
RECURSIVE EmuRun(_, _)
EmuRun(s, inputs) ==
  IF Len(inputs) = 0 THEN s
  ELSE IF Len(inputs) = 1 THEN CachingStep(s, inputs[1])
  ELSE LET h == Len(inputs) \div 2
           mid == EmuRun(s, SubSeq(inputs, 1, h))
       IN IF mid >= 0
          THEN EmuRun(mid, SubSeq(inputs, h + 1, Len(inputs)))
          ELSE mid

----------------------------------------------------------------------------
(* The player's record: the fields Commit and Rewind read and write.       *)
Player(e, m, s, c, n) ==
  [emu |-> e, movie |-> m, subtitles |-> s, checkpoints |-> c, memories |-> n]

Checkpoint(save, movenum) == [save |-> save, movenum |-> movenum]

\* Commit's early return: `movie.size() < watermark ||
\* movie.size() < config.fastforward`.
CommitReturnsEarly(size, wm, ff) == size < wm \/ size < ff

\* PlayFun::Commit(input, message).
Commit(st, wm, ff, input, message) ==
  LET e == CachingStep(st.emu, input)
      m == Append(st.movie, input)
      s == Append(st.subtitles, message)
  IN IF CommitReturnsEarly(Len(m), wm, ff)
     THEN Player(e, m, s, st.checkpoints, st.memories)
     ELSE LET inputs == Len(m) - ff
              c == IF inputs % CHECKPOINT_EVERY = 0
                   THEN Append(st.checkpoints, Checkpoint(e, Len(m)))
                   ELSE st.checkpoints
              n == IF inputs % OBSERVE_EVERY = 0
                   THEN st.memories + 1
                   ELSE st.memories
          IN Player(e, m, s, c, n)

\* The loop `for j: Commit(nexts[best_next_idx][j], nextplanations[...])`.
\* The sequence is halved so that the evaluation stays shallow; the
\* inputs are committed one by one, in order.
RECURSIVE CommitAll(_, _, _, _, _)
CommitAll(st, wm, ff, inputs, message) ==
  IF Len(inputs) = 0 THEN st
  ELSE IF Len(inputs) = 1 THEN Commit(st, wm, ff, inputs[1], message)
  ELSE LET h == Len(inputs) \div 2
           mid == CommitAll(st, wm, ff, SubSeq(inputs, 1, h), message)
       IN IF mid.memories >= 0
          THEN CommitAll(mid, wm, ff,
                         SubSeq(inputs, h + 1, Len(inputs)), message)
          ELSE mid

\* Rewind's loop: pop while the last checkpoint's movenum > movenum.
RECURSIVE PopCheckpoints(_, _)
PopCheckpoints(cps, movenum) ==
  IF cps # <<>> /\ cps[Len(cps)].movenum > movenum
  THEN PopCheckpoints(SubSeq(cps, 1, Len(cps) - 1), movenum)
  ELSE cps

\* Rewind as it would be with the subtitles left alone.
RewindMovieOnly(st, movenum) ==
  [st EXCEPT !.movie = SubSeq(st.movie, 1, movenum),
             !.checkpoints = PopCheckpoints(st.checkpoints, movenum)]

\* Rewind as it would be with the checkpoints left alone.
RewindKeepCheckpoints(st, movenum) ==
  [st EXCEPT !.movie = SubSeq(st.movie, 1, movenum),
             !.subtitles = SubSeq(st.subtitles, 1, movenum)]

\* PlayFun::Rewind(movenum), its CHECKs passed (see RewindChecks).
Rewind(st, movenum) ==
  [st EXCEPT !.movie = SubSeq(st.movie, 1, movenum),
             !.subtitles = SubSeq(st.subtitles, 1, movenum),
             !.checkpoints = PopCheckpoints(st.checkpoints, movenum)]

\* Rewind's CHECKs.
RewindChecks(st, movenum) ==
  /\ movenum >= 0
  /\ movenum < Len(st.movie)
  /\ Len(st.movie) = Len(st.subtitles)

\* `(movie.size() - checkpoints[i].movenum) >= MIN_BACKTRACK_DISTANCE`
\* in size_t: the difference wraps to a huge value when movenum is larger.
FarEnough(size, movenum) ==
  IF movenum > size THEN TRUE ELSE size - movenum >= MIN_BACKTRACK_DISTANCE

\* GetRecentCheckpoint with the watermark test left out.
GetRecentCheckpointAnyMovenum(cps, size, wm) ==
  LET ok == {i \in 1..Len(cps) : FarEnough(size, cps[i].movenum)}
  IN IF ok = {} THEN 0 ELSE CHOOSE i \in ok : \A j \in ok : j <= i

\* GetRecentCheckpoint with the distance test left out.
GetRecentCheckpointAnyDistance(cps, size, wm) ==
  LET ok == {i \in 1..Len(cps) : cps[i].movenum > wm}
  IN IF ok = {} THEN 0 ELSE CHOOSE i \in ok : \A j \in ok : j <= i

\* GetRecentCheckpoint with the loop run from the first checkpoint up.
GetRecentCheckpointOldest(cps, size, wm) ==
  LET ok == {i \in 1..Len(cps) :
               FarEnough(size, cps[i].movenum) /\ cps[i].movenum > wm}
  IN IF ok = {} THEN 0 ELSE CHOOSE i \in ok : \A j \in ok : i <= j

\* PlayFun::GetRecentCheckpoint: the index (1-based) of the checkpoint
\* returned, 0 for NULL.
GetRecentCheckpoint(cps, size, wm) ==
  LET ok == {i \in 1..Len(cps) :
               FarEnough(size, cps[i].movenum) /\ cps[i].movenum > wm}
  IN IF ok = {} THEN 0 ELSE CHOOSE i \in ok : \A j \in ok : j <= i

----------------------------------------------------------------------------
(* Inputs of the player.                                                   *)
InputBytes == {0, 4, 8}

SeqsUpTo(S, n) == UNION {[1..k -> S] : k \in 0..n}

CtorSolutions == SeqsUpTo(InputBytes, MaxSolLen) \cup {<<0, 0, 0, 8, 4>>}
PlaySolutions == SeqsUpTo({0, 8}, PlaySolLen)

Repeat(x, n) == [i \in 1..n |-> x]

\* The motifs the candidate nexts of a round are cut from (ten inputs each).
MotifA == Repeat(1, MOTIF_SIZE)
MotifB == <<2, 2, 2, 2, 2, 3, 3, 3, 3, 3>>

\* The next a selector round commits, with its explanation.  The futures
\* pool and the scores that choose it are not tracked in Spec.
NextsOfRound(i) ==
  IF i % 3 = 0 THEN {[next |-> MotifB, why |-> "backfill"]}
  ELSE {[next |-> MotifA, why |-> "ftr-0"]}

PlayerNow == Player(emu, movie, subtitles, checkpoints, memories)

SetPlayer(st) ==
  /\ emu' = st.emu
  /\ movie' = st.movie
  /\ subtitles' = st.subtitles
  /\ checkpoints' = st.checkpoints
  /\ memories' = st.memories

NoCheckpoint == Checkpoint(0, 0)

PoolIdle ==
  /\ ppc = "off" /\ futures = <<>> /\ futuretotals = <<>> /\ dropped = <<>>
  /\ chopfutures = TRUE /\ prounds = 0
SelectIdle ==
  /\ spc = "off" /\ scores = <<>> /\ best_next_idx = 0 /\ best_score = 0
MotifIdle ==
  /\ mpc = "off" /\ mweights = <<>> /\ lastw = <<>> /\ lastnext = 0
  /\ lastup = FALSE /\ mrounds = 0
InputIdle ==
  /\ vpc = "off" /\ vop = "none" /\ vec = <<>> /\ vec0 = <<>> /\ vmid = <<>>
  /\ vstart = 0 /\ vlen = 0
ObserveIdle == obpc = "off" /\ observations = <<>> /\ nobserved = 0
ObjIdle ==
  /\ opc = "off" /\ weighted = <<>> /\ mem1 = <<>> /\ mem2 = <<>>
  /\ wless12 = 0 /\ wless21 = 0 /\ eval12 = 0
OldIdle ==
  /\ PoolIdle /\ SelectIdle /\ MotifIdle /\ InputIdle /\ ObserveIdle
  /\ ObjIdle
RoundIdle ==
  /\ rpc = "off" /\ rstate = 0 /\ rnexts = <<>> /\ rfutures = <<>>
  /\ requests = <<>> /\ work = <<>> /\ completed = <<>>
  /\ lbest = 0 /\ ltotals = <<>> /\ rbest = 0 /\ rtotals = <<>>
MainIdle ==
  /\ mbuild = "off" /\ mhelpers = 0 /\ mrole = "off" /\ mbatch = <<>>
  /\ mbatches = 0
HelperIdle ==
  /\ hpc = "off" /\ connected = FALSE /\ connections = 0 /\ hreq = <<>>
  /\ hres = <<>> /\ hfresh = FALSE /\ reads = 0 /\ writes = 0
  /\ hwrote = "none" /\ hfailed = <<>> /\ cache = <<>> /\ computed = 0
  /\ hfreshids = 0
ImproveIdle ==
  ipc = "idle" /\ ireq = <<>> /\ ii = 0 /\ iinputs = <<>> /\ repls = <<>>
  /\ found = <<>> /\ tried = {} /\ icalls = <<>> /\ ires = <<>>
OrderIdle ==
  ordpc = "idle" /\ omem1 = <<>> /\ omem2 = <<>> /\ oorder = <<>>
  /\ oval = <<>> /\ orev = <<>>
NormIdle ==
  gpc = "idle" /\ ginfo = <<>> /\ gobserved = 0 /\ gmem = <<>> /\ gvalue = <<>>
WeighIdle ==
  wpc = "idle" /\ wweighted = <<>> /\ wmemories = <<>>
FileIdle ==
  fpc = "idle" /\ fweighted = <<>> /\ fout = {} /\ floaded = <<>>
NextsIdle ==
  npc = "idle" /\ nfutures = <<>> /\ nlib = <<>> /\ ntodo = <<>> /\ cnexts = <<>> /\ cwhy = <<>>
PathIdle ==
  qpc = "idle" /\ qweighted = <<>> /\ qstart = <<>> /\ qendpath = <<>> /\ qnewpath = <<>> /\ qend_integral = 0 /\ qimproved = FALSE /\ qscore = 0
ExceptRoundIdle ==
  /\ MainIdle
  /\ HelperIdle
  /\ ImproveIdle
  /\ OrderIdle
  /\ NormIdle
  /\ WeighIdle
  /\ FileIdle
  /\ NextsIdle
  /\ PathIdle
ExceptMainIdle ==
  /\ RoundIdle
  /\ HelperIdle
  /\ ImproveIdle
  /\ OrderIdle
  /\ NormIdle
  /\ WeighIdle
  /\ FileIdle
  /\ NextsIdle
  /\ PathIdle
ExceptHelperIdle ==
  /\ RoundIdle
  /\ MainIdle
  /\ ImproveIdle
  /\ OrderIdle
  /\ NormIdle
  /\ WeighIdle
  /\ FileIdle
  /\ NextsIdle
  /\ PathIdle
ExceptImproveIdle ==
  /\ RoundIdle
  /\ MainIdle
  /\ HelperIdle
  /\ OrderIdle
  /\ NormIdle
  /\ WeighIdle
  /\ FileIdle
  /\ NextsIdle
  /\ PathIdle
ExceptOrderIdle ==
  /\ RoundIdle
  /\ MainIdle
  /\ HelperIdle
  /\ ImproveIdle
  /\ NormIdle
  /\ WeighIdle
  /\ FileIdle
  /\ NextsIdle
  /\ PathIdle
ExceptNormIdle ==
  /\ RoundIdle
  /\ MainIdle
  /\ HelperIdle
  /\ ImproveIdle
  /\ OrderIdle
  /\ WeighIdle
  /\ FileIdle
  /\ NextsIdle
  /\ PathIdle
ExceptWeighIdle ==
  /\ RoundIdle
  /\ MainIdle
  /\ HelperIdle
  /\ ImproveIdle
  /\ OrderIdle
  /\ NormIdle
  /\ FileIdle
  /\ NextsIdle
  /\ PathIdle
ExceptFileIdle ==
  /\ RoundIdle
  /\ MainIdle
  /\ HelperIdle
  /\ ImproveIdle
  /\ OrderIdle
  /\ NormIdle
  /\ WeighIdle
  /\ NextsIdle
  /\ PathIdle
ExceptNextsIdle ==
  /\ RoundIdle
  /\ MainIdle
  /\ HelperIdle
  /\ ImproveIdle
  /\ OrderIdle
  /\ NormIdle
  /\ WeighIdle
  /\ FileIdle
  /\ PathIdle
ExceptPathIdle ==
  /\ RoundIdle
  /\ MainIdle
  /\ HelperIdle
  /\ ImproveIdle
  /\ OrderIdle
  /\ NormIdle
  /\ WeighIdle
  /\ FileIdle
  /\ NextsIdle
RestIdle ==
  /\ RoundIdle
  /\ MainIdle
  /\ HelperIdle
  /\ ImproveIdle
  /\ OrderIdle
  /\ NormIdle
  /\ WeighIdle
  /\ FileIdle
  /\ NextsIdle
  /\ PathIdle
MoreIdle == MotifIdle /\ InputIdle /\ ObserveIdle /\ ObjIdle /\ RestIdle

PlayerInit(sols, ffs) ==
  /\ pc = "warmup_zero"
  /\ solution \in sols
  /\ fastforward \in ffs
  /\ start = 0
  /\ watermark = 0
  /\ emu = EmuInitial
  /\ movie = <<>>
  /\ subtitles = <<>>
  /\ checkpoints = <<>>
  /\ memories = 0
  /\ rounds_until_backtrack = 0
  /\ iters = 0
  /\ bt_start = NoCheckpoint
  /\ tryvec = <<>>
  /\ trysplanations = <<>>

----------------------------------------------------------------------------
(* PlayFun::PlayFun: the two warmup loops.                                 *)

\* `solution[start]`: past the end of the vector the read is undefined and
\* may yield any byte (zero or not).
SolutionAt(i) ==
  IF i < Len(solution) THEN {solution[i + 1]} ELSE {0, 8}

\* `while (solution[start] == 0 && start < solution.size())`
ZeroLoopContinues(v, i, n) == v = 0 /\ i < n

\* The second loop's condition with <= for the first <.
FFLoopContinuesInclusive(i, ff, n) == i <= ff /\ i < n

\* `while (start < config.fastforward && start < solution.size())`
FFLoopContinues(i, ff, n) == i < ff /\ i < n

\* One iteration of either loop: Commit, watermark++, start++.
WarmupCommit ==
  /\ SetPlayer(Commit(PlayerNow, watermark, fastforward,
                      solution[start + 1], "warmup"))
  /\ watermark' = watermark + 1
  /\ start' = start + 1

WarmupZero ==
  /\ pc = "warmup_zero"
  /\ \E v \in SolutionAt(start) :
       IF ZeroLoopContinues(v, start, Len(solution))
       THEN WarmupCommit /\ pc' = pc
       ELSE /\ pc' = "warmup_ff"
            /\ UNCHANGED <<start, watermark, emu, movie, subtitles,
                           checkpoints, memories>>
  /\ UNCHANGED <<solution, fastforward, rounds_until_backtrack, iters,
                 bt_start, tryvec, trysplanations, poolVars, selectVars, moreVars>>

\* The second loop, then `CHECK(start > 0 && ...)`.
WarmupFF ==
  /\ pc = "warmup_ff"
  /\ IF FFLoopContinues(start, fastforward, Len(solution))
     THEN WarmupCommit /\ pc' = pc
     ELSE /\ pc' = IF start > 0 THEN "constructed" ELSE "aborted"
          /\ UNCHANGED <<start, watermark, emu, movie, subtitles,
                         checkpoints, memories>>
  /\ UNCHANGED <<solution, fastforward, rounds_until_backtrack, iters,
                 bt_start, tryvec, trysplanations, poolVars, selectVars, moreVars>>

----------------------------------------------------------------------------
(* PlayFun::Master and PlayFun::MaybeBacktrack, on the player's record.    *)

\* Master up to its loop: the timer and the round counter.
MasterBegin ==
  /\ pc = "constructed"
  /\ pc' = "round"
  /\ rounds_until_backtrack' = TRY_BACKTRACK_EVERY \div INPUTS_PER_NEXT
  /\ iters' = 1
  /\ UNCHANGED <<solution, fastforward, start, watermark, emu, movie,
                 subtitles, checkpoints, memories, bt_start, tryvec,
                 trysplanations, poolVars, selectVars, moreVars>>

\* One iteration of Master's loop up to MaybeBacktrack: MakeNexts and
\* TakeBestAmong(nexts, nextplanations, &futures, true), which reloads the
\* state saved at its entry and commits the chosen next.
Round ==
  /\ pc = "round"
  /\ iters <= MaxIters
  /\ \E nx \in NextsOfRound(iters) :
       SetPlayer(CommitAll(PlayerNow, watermark, fastforward,
                           nx.next, nx.why))
  /\ pc' = "maybe_backtrack"
  /\ UNCHANGED <<solution, fastforward, start, watermark,
                 rounds_until_backtrack, iters, bt_start, tryvec,
                 trysplanations, poolVars, selectVars, moreVars>>

\* What the workers may answer to TryImprove: lists of Replacement.
\* A candidate is never longer than improveme and never shorter than
\* INPUTS_PER_NEXT (DoTryImprove rejects those).
Replacement(inputs, method) == [inputs |-> inputs, method |-> method]
Ablated(improveme) == [improveme EXCEPT ![1] = 0]
ChopTail(improveme) == SubSeq(improveme, 1, Len(improveme) - 1)
ChopMost(improveme) == SubSeq(improveme, 1, INPUTS_PER_NEXT)
ReplacementLists(improveme) ==
  { <<>>,
    <<Replacement(Ablated(improveme), "ABLATE")>>,
    <<Replacement(ChopTail(improveme), "CHOP"),
      Replacement(ChopTail(improveme), "CHOP")>>,
    <<Replacement(ChopMost(improveme), "CHOP"),
      Replacement(improveme, "SHUFFLE"),
      Replacement(Ablated(improveme), "ABLATE")>> }

\* MaybeBacktrack's trial set: improveme first, then each replacement
\* whose inputs are not yet in tryme.
RECURSIVE TryVec(_, _)
TryVec(acc, replacements) ==
  IF replacements = <<>> THEN acc
  ELSE LET r == Head(replacements)
       IN IF \E k \in 1..Len(acc) : acc[k].inputs = r.inputs
          THEN TryVec(acc, Tail(replacements))
          ELSE TryVec(Append(acc, r), Tail(replacements))

\* The timer in frames instead of rounds.
BacktrackWindowFrames == TRY_BACKTRACK_EVERY

\* `*rounds_until_backtrack = TRY_BACKTRACK_EVERY / INPUTS_PER_NEXT;`
BacktrackWindow == TRY_BACKTRACK_EVERY \div INPUTS_PER_NEXT

\* The emulator left at the checkpoint TryImprove started from.
AfterTryImproveAtStart(save, improveme) == save

\* The emulator after TryImprove: its own
\* `ScoreIntegral(&start->save, improveme, NULL)` loads the checkpoint and
\* steps through improveme; the helpers do the rest of the work.
AfterTryImprove(save, improveme) == EmuRun(save, improveme)

\* The timer running twice as fast.
TimerTickTwice(r) == r - 2

\* `--*rounds_until_backtrack;`, once in every call of MaybeBacktrack.
TimerTick(r) == r - 1

MaybeBacktrack ==
  /\ pc = "maybe_backtrack"
  /\ LET r == TimerTick(rounds_until_backtrack)
         ci == GetRecentCheckpoint(checkpoints, Len(movie), watermark)
     IN
     IF r > 0
     THEN \* not yet time
          /\ rounds_until_backtrack' = r
          /\ pc' = "round" /\ iters' = iters + 1
          /\ UNCHANGED <<emu, movie, subtitles, checkpoints, memories,
                         bt_start, tryvec, trysplanations>>
     ELSE IF ci = 0
     THEN \* "No checkpoint to try backtracking."
          /\ rounds_until_backtrack' = 1
          /\ pc' = "round" /\ iters' = iters + 1
          /\ UNCHANGED <<emu, movie, subtitles, checkpoints, memories,
                         bt_start, tryvec, trysplanations>>
     ELSE LET cp == checkpoints[ci]
              improveme == SubSeq(movie, cp.movenum + 1, Len(movie))
          IN
          /\ rounds_until_backtrack' = BacktrackWindow
          /\ IF improveme = <<>>
             THEN \* CHECK(nmoves > 0)
                  /\ pc' = "aborted" /\ iters' = iters
                  /\ UNCHANGED <<emu, movie, subtitles, checkpoints,
                                 memories, bt_start, tryvec, trysplanations>>
             ELSE \E replacements \in ReplacementLists(improveme) :
                  IF replacements = <<>>
                  THEN \* "There were no superior replacements."
                       \* TryImprove's ScoreIntegral has replayed improveme
                       \* from the checkpoint.
                       /\ emu' = AfterTryImprove(cp.save, improveme)
                       /\ pc' = "round" /\ iters' = iters + 1
                       /\ UNCHANGED <<movie, subtitles, checkpoints, memories,
                                      bt_start, tryvec, trysplanations>>
                  ELSE IF ~RewindChecks(PlayerNow, cp.movenum)
                  THEN /\ pc' = "aborted" /\ iters' = iters
                       /\ UNCHANGED <<emu, movie, subtitles, checkpoints,
                                      memories, bt_start, tryvec,
                                      trysplanations>>
                  ELSE \* Rewind(start.movenum); Emulator::Load(&start.save)
                       LET tv == TryVec(<<Replacement(improveme, "original")>>,
                                        replacements)
                       IN
                       /\ SetPlayer([Rewind(PlayerNow, cp.movenum)
                                       EXCEPT !.emu = cp.save])
                       /\ bt_start' = cp
                       /\ tryvec' = [k \in 1..Len(tv) |-> tv[k].inputs]
                       /\ trysplanations' = [k \in 1..Len(tv) |-> tv[k].method]
                       /\ pc' = "bt_take" /\ iters' = iters
  /\ UNCHANGED <<solution, fastforward, start, watermark, poolVars,
                 selectVars, moreVars>>

\* The rest of MaybeBacktrack: TakeBestAmong(tryvec, trysplanations,
\* futures, false) reloads the state saved at its entry and commits the
\* winner; then the locals go out of scope and Master's loop goes on.
BacktrackTake ==
  /\ pc = "bt_take"
  /\ \E k \in 1..Len(tryvec) :
       SetPlayer(CommitAll(PlayerNow, watermark, fastforward,
                           tryvec[k], trysplanations[k]))
  /\ bt_start' = NoCheckpoint
  /\ tryvec' = <<>>
  /\ trysplanations' = <<>>
  /\ pc' = "round" /\ iters' = iters + 1
  /\ UNCHANGED <<solution, fastforward, start, watermark,
                 rounds_until_backtrack, poolVars, selectVars, moreVars>>

InitCtor ==
  PlayerInit(CtorSolutions, 0..MaxFF) /\ PoolIdle /\ SelectIdle /\ MoreIdle
NextCtor == WarmupZero \/ WarmupFF
SpecCtor == InitCtor /\ [][NextCtor]_vars

Init ==
  PlayerInit(PlaySolutions, 0..PlayFF) /\ PoolIdle /\ SelectIdle /\ MoreIdle
Next == WarmupZero \/ WarmupFF \/ MasterBegin \/ Round \/ MaybeBacktrack
          \/ BacktrackTake
Spec == Init /\ [][Next]_vars

----------------------------------------------------------------------------
(* The futures pool: PopulateFutures, MutateFuture and the pool's part of  *)
(* TakeBestAmong.  A Future is kept as its flags, its desired_length and   *)
(* the length of its inputs.                                               *)

Future(w, d, mut, len) ==
  [weighted |-> w, desired_length |-> d, is_mutant |-> mut, len |-> len]

CountWeighted(fs) == Cardinality({i \in 1..Len(fs) : fs[i].weighted})

\* `flength = MINFUTURELENGTH + (int)((MAX - MIN) * RandomDouble(&rc))`:
\* rc is a deterministic stream; the model draws its seed and takes the
\* k-th length of a call from a fixed stream over [MIN, MAX].
FLength(seed, k) ==
  MINFUTURELENGTH +
    ((seed * 397 + k * 211) % (MAXFUTURELENGTH - MINFUTURELENGTH + 1))

\* num_to_weight with min for max.
NumToWeightMin(cur) == Min(NWEIGHTEDFUTURES - cur, 0)

\* `num_to_weight = max(NWEIGHTEDFUTURES - num_currently_weighted, 0)`
NumToWeight(cur) == Max(NWEIGHTEDFUTURES - cur, 0)

\* The refill loop run against NWEIGHTEDFUTURES instead of NFUTURES.
FuturesToAddWeighted(size) == Max(NWEIGHTEDFUTURES - size, 0)

\* `while (futures->size() < NFUTURES)`: the number of push_backs.
FuturesToAdd(size) == Max(NFUTURES - size, 0)

\* The top-up loop of one future: append motifs (of msize inputs) while
\* inputs.size() < desired_length; a motif is cut short only when
\* `m.size() > inputs.size() + future.desired_length`, which can hold in
\* the first pass only (inputs.size() grows).  Otherwise whole motifs are
\* appended: as many as it takes to reach desired_length.
FillInputs(len, desired, msize) ==
  IF len >= desired THEN len
  ELSE IF msize > len + desired THEN desired
  ELSE len + msize * ((desired - len + msize - 1) \div msize)

\* PlayFun::PopulateFutures(futures).  The first NFUTURES futures are
\* topped up.
PopulateFutures(fs, seed) ==
  LET num_currently_weighted == CountWeighted(fs)
      num_to_weight == NumToWeight(num_currently_weighted)
      added == FuturesToAdd(Len(fs))
      all == fs \o [k \in 1..added |->
                      Future(k <= num_to_weight, FLength(seed, k - 1),
                             FALSE, 0)]
  IN [i \in 1..Len(all) |->
        IF i <= NFUTURES
        THEN [all[i] EXCEPT !.len = FillInputs(all[i].len,
                                               all[i].desired_length,
                                               MOTIF_SIZE)]
        ELSE all[i]]

\* PlayFun::MutateFuture(input); flip is `(rc.Byte() & 7) == 0`.  The
\* Dualize of the mutant's inputs does not change their number.
MutateFuture(input, flip) ==
  Future(IF flip THEN ~input.weighted ELSE input.weighted,
         input.desired_length, TRUE,
         Max(MINFUTURELENGTH, input.desired_length \div 2))

\* One pass of TakeBestAmong's drop loop over futures and futuretotals
\* (indices 1-based): `if (worst_total < futuretotals[i])` moves
\* worst_idx to i.
RECURSIVE WorstScan(_, _, _, _)
WorstScan(totals, n, i, worst_idx) ==
  IF i > n THEN worst_idx
  ELSE LET w == IF totals[worst_idx] < totals[i] THEN i ELSE worst_idx
       IN \* (the test on w has TLC evaluate it before the next pass)
          IF w >= 1 THEN WorstScan(totals, n, i + 1, w) ELSE w

WorstIdx(fs, totals) == WorstScan(totals, Len(fs), 2, 1)

\* "Delete it by swapping": the pool, the totals and the local worst_total.
DropOne(st) ==
  LET fs == st.futures
      totals == st.futuretotals
      w == WorstIdx(fs, totals)
      last == Len(fs)
  IN [futures |-> SubSeq(IF w # last THEN [fs EXCEPT ![w] = fs[last]]
                                     ELSE fs, 1, last - 1),
      futuretotals |-> IF w # last THEN [totals EXCEPT ![w] = totals[last]]
                                   ELSE totals,
      dropped |-> Append(st.dropped, totals[w])]

RECURSIVE DropLoop(_, _)
\* (the test on nx has TLC evaluate it before the next pass)
DropLoop(st, t) ==
  IF t = 0 THEN st
  ELSE LET nx == DropOne(st)
       IN IF Len(nx.dropped) >= 0 THEN DropLoop(nx, t - 1) ELSE nx

\* "Now get the future with the best score" (indices 1-based):
\* `if (futuretotals[i] > best_future_score)` moves best_future_idx to i.
RECURSIVE BestScan(_, _, _, _)
BestScan(totals, n, i, best_future_idx) ==
  IF i > n THEN best_future_idx
  ELSE LET b == IF totals[i] > totals[best_future_idx]
                THEN i ELSE best_future_idx
       IN \* (the test on b has TLC evaluate it before the next pass)
          IF b >= 1 THEN BestScan(totals, n, i + 1, b) ELSE b

BestFutureIdx(fs, totals) == BestScan(totals, Len(fs), 2, 1)

\* The futuretotals ParallelStep may return for a pool of n futures: all
\* equal, descending, ascending, and a mix with ties and negative totals.
TotalsFamily(n) ==
  { [i \in 1..n |-> 0],
    [i \in 1..n |-> n - i],
    [i \in 1..n |-> i],
    [i \in 1..n |-> ((i * 7) % 5) - 2] }

\* The outcomes of the MUTATEFUTURES draws of `(rc.Byte() & 7) == 0`.
FlipFamily ==
  { [t \in 1..MUTATEFUTURES |-> FALSE],
    [t \in 1..MUTATEFUTURES |-> TRUE],
    [t \in 1..MUTATEFUTURES |-> t % 2 = 0] }

\* The seeds of rc's stream the model draws from.
Seeds == {0, 1}

PlayerIdle ==
  /\ pc = "off" /\ solution = <<>> /\ fastforward = 0 /\ start = 0
  /\ watermark = 0 /\ emu = EmuInitial /\ movie = <<>> /\ subtitles = <<>>
  /\ checkpoints = <<>> /\ memories = 0 /\ rounds_until_backtrack = 0
  /\ iters = 0 /\ bt_start = NoCheckpoint /\ tryvec = <<>>
  /\ trysplanations = <<>>

\* The chop left out.
ChopFutureKeep(f, choplength) == f

\* `vector<uint8> newf(it->inputs.begin() + choplength, it->inputs.end());
\* it->inputs.swap(newf);`
ChopFuture(f, choplength) == [f EXCEPT !.len = @ - choplength]

\* Master: `vector<Future> futures; ... PopulateFutures(&futures);`
PoolBegin ==
  /\ ppc = "start"
  /\ \E seed \in Seeds : futures' = PopulateFutures(futures, seed)
  /\ ppc' = "round"
  /\ UNCHANGED <<futuretotals, dropped, chopfutures, prounds, playerVars,
                 selectVars, moreVars>>

\* TakeBestAmong up to the end of its drop loop: ParallelStep fills
\* futuretotals, the heads are chopped when chopfutures, and
\* TOTAL_TO_DROP futures are swap-removed.  chopfutures is true in a
\* normal round and false in the round MaybeBacktrack runs; the chosen
\* next of a normal round has INPUTS_PER_NEXT inputs.
TakeBestAmongDrop ==
  /\ ppc = "round"
  /\ prounds < MaxPoolRounds
  /\ \E chop \in BOOLEAN, totals \in TotalsFamily(Len(futures)) :
       LET choplength == INPUTS_PER_NEXT
           chopped == IF chop
                      THEN [i \in 1..Len(futures) |->
                              ChopFuture(futures[i], choplength)]
                      ELSE futures
           st == DropLoop([futures |-> chopped, futuretotals |-> totals,
                           dropped |-> <<>>], TOTAL_TO_DROP)
       IN IF (chop /\ \E i \in 1..Len(futures) : futures[i].len < choplength)
             \/ Len(futures) < TOTAL_TO_DROP
          THEN \* a chop past the end of a future, or CHECK(!futures->empty())
               /\ ppc' = "aborted"
               /\ chopfutures' = chop
               /\ UNCHANGED <<futures, futuretotals, dropped>>
          ELSE /\ futures' = st.futures
               /\ futuretotals' = st.futuretotals
               /\ dropped' = st.dropped
               /\ chopfutures' = chop
               /\ ppc' = "dropped"
  /\ UNCHANGED <<prounds, playerVars, selectVars, moreVars>>

\* TakeBestAmong: MUTATEFUTURES mutants of the best future left.
TakeBestAmongMutate ==
  /\ ppc = "dropped"
  /\ \E flips \in FlipFamily :
       LET b == BestFutureIdx(futures, futuretotals)
       IN futures' = futures \o [t \in 1..MUTATEFUTURES |->
                                   MutateFuture(futures[b], flips[t])]
  /\ ppc' = "mutated"
  /\ UNCHANGED <<futuretotals, dropped, chopfutures, prounds, playerVars,
                 selectVars, moreVars>>

\* The end of TakeBestAmong: (the commit and the reweighting, which leave
\* the pool alone, and) PopulateFutures(futures).
TakeBestAmongPopulate ==
  /\ ppc = "mutated"
  /\ \E seed \in Seeds : futures' = PopulateFutures(futures, seed)
  /\ futuretotals' = <<>>
  /\ dropped' = <<>>
  /\ ppc' = "round"
  /\ prounds' = prounds + 1
  /\ UNCHANGED <<chopfutures, playerVars, selectVars, moreVars>>

InitPool ==
  /\ PlayerIdle /\ SelectIdle /\ MoreIdle
  /\ ppc = "start" /\ futures = <<>> /\ futuretotals = <<>>
  /\ dropped = <<>> /\ chopfutures = TRUE /\ prounds = 0
NextPool == PoolBegin \/ TakeBestAmongDrop \/ TakeBestAmongMutate
              \/ TakeBestAmongPopulate
SpecPool == InitPool /\ [][NextPool]_vars

----------------------------------------------------------------------------
(* PlayFun::ParallelStep: the choice of best_next_idx.  The scores         *)
(* InnerLoop returns for each next are inputs.                             *)

ScoreValues == {-1, 0, 1}
NextScore(im, fu) == [immediate_score |-> im, future_score |-> fu]
NextScores == {NextScore(im, fu) : im \in ScoreValues, fu \in ScoreValues}
ScoreLists == UNION {[1..n -> NextScores] : n \in 1..MaxNexts}

\* `double score = immediate_score + future_score;`
Score(r) == r.immediate_score + r.future_score

\* The loop with `if (score >= best_score)`.
RECURSIVE BestNextScanOrEqual(_, _, _, _)
BestNextScanOrEqual(sc, i, idx, best) ==
  IF i >= Len(sc) THEN [best_next_idx |-> idx, best_score |-> best]
  ELSE IF Score(sc[i + 1]) >= best
       THEN BestNextScanOrEqual(sc, i + 1, i, Score(sc[i + 1]))
       ELSE BestNextScanOrEqual(sc, i + 1, idx, best)

\* The loop `for (int i = 0; i < nexts.size(); i++)`, i 0-based:
\* `if (score > best_score) { best_score = score; *best_next_idx = i; }`
RECURSIVE BestNextScan(_, _, _, _)
BestNextScan(sc, i, idx, best) ==
  IF i >= Len(sc) THEN [best_next_idx |-> idx, best_score |-> best]
  ELSE IF Score(sc[i + 1]) > best
       THEN BestNextScan(sc, i + 1, i, Score(sc[i + 1]))
       ELSE BestNextScan(sc, i + 1, idx, best)

\* `CHECK(nexts.size() > 0); *best_next_idx = 0; double best_score = 0.0;`
\* and the loop.
ParallelStep ==
  /\ spc = "start"
  /\ Len(scores) > 0
  /\ LET r == BestNextScan(scores, 0, 0, 0)
     IN /\ best_next_idx' = r.best_next_idx
        /\ best_score' = r.best_score
  /\ spc' = "done"
  /\ UNCHANGED <<scores, playerVars, poolVars, moreVars>>

InitSelect ==
  /\ PlayerIdle /\ PoolIdle /\ MoreIdle
  /\ spc = "start" /\ scores \in ScoreLists
  /\ best_next_idx = -1 /\ best_score = 0
NextSelect == ParallelStep
SpecSelect == InitSelect /\ [][NextSelect]_vars

----------------------------------------------------------------------------
(* The player with the trial of a backtrack scored: as Spec, but the       *)
(* TakeBestAmong that ends MaybeBacktrack commits the member of the trial  *)
(* set that ParallelStep chooses from the scores of the members.           *)

\* The scores the members of a trial set of n segments can get: below
\* zero or above.
TrialScores(n) == [1..n -> {NextScore(-1, 0), NextScore(1, 0)}]

\* The rest of MaybeBacktrack: TakeBestAmong(tryvec, trysplanations,
\* futures, false) has ParallelStep choose best_next_idx, reloads the
\* state saved at its entry and commits nexts[best_next_idx].
BacktrackTakeBest ==
  /\ pc = "bt_take"
  /\ \E sc \in TrialScores(Len(tryvec)) :
       LET r == BestNextScan(sc, 0, 0, 0)
       IN /\ scores' = sc
          /\ best_next_idx' = r.best_next_idx
          /\ best_score' = r.best_score
          /\ SetPlayer(CommitAll(PlayerNow, watermark, fastforward,
                                 tryvec[r.best_next_idx + 1],
                                 trysplanations[r.best_next_idx + 1]))
  /\ bt_start' = NoCheckpoint
  /\ tryvec' = <<>>
  /\ trysplanations' = <<>>
  /\ pc' = "round" /\ iters' = iters + 1
  /\ UNCHANGED <<solution, fastforward, start, watermark,
                 rounds_until_backtrack, spc, poolVars, moreVars>>

NextTrial == WarmupZero \/ WarmupFF \/ MasterBegin \/ Round
             \/ MaybeBacktrack \/ BacktrackTakeBest
SpecTrial == Init /\ [][NextTrial]_vars

----------------------------------------------------------------------------
(* TakeBestAmong's reweighting of the committed motif.  MOTIF_ALPHA is     *)
(* 0.8 = 4/5, so a weight is always its first value times a power of 5/4:  *)
(* Info keeps that value (base) and the power (ups), which is exact.       *)
(* To compare weights they are all multiplied by the same power of 4 and   *)
(* of 5, which makes them integers.                                        *)

MOTIF_ALPHA_NUM == 4
MOTIF_ALPHA_DEN == 5
MOTIF_MAX_FRAC_INV == 10          \* MOTIF_MAX_FRAC is 0.1
MOTIF_MIN_FRAC_INV == 100000      \* MOTIF_MIN_FRAC is 0.00001

Info(base, ups) == [base |-> base, ups |-> ups]

RECURSIVE Pow(_, _)
Pow(b, n) == IF n = 0 THEN 1 ELSE b * Pow(b, n - 1)

\* The weight Info w stands for, times ALPHA_NUM^hi / ALPHA_DEN^lo
\* (lo <= w.ups <= hi).
Scaled(w, lo, hi) ==
  w.base * Pow(MOTIF_ALPHA_DEN, w.ups - lo) * Pow(MOTIF_ALPHA_NUM, hi - w.ups)

RECURSIVE SumScaled(_, _, _)
SumScaled(ws, lo, hi) ==
  IF ws = <<>> THEN 0
  ELSE Scaled(Head(ws), lo, hi) + SumScaled(Tail(ws), lo, hi)

\* The least and the greatest power among the weights ws and Info d.
LoUps(ws, d) ==
  CHOOSE x \in {ws[i].ups : i \in 1..Len(ws)} \cup {d.ups} :
    /\ x <= d.ups
    /\ \A i \in 1..Len(ws) : x <= ws[i].ups
HiUps(ws, d) ==
  CHOOSE x \in {ws[i].ups : i \in 1..Len(ws)} \cup {d.ups} :
    /\ x >= d.ups
    /\ \A i \in 1..Len(ws) : x >= ws[i].ups

\* Motifs::GetTotalWeight(), on the scale (lo, hi).
GetTotalWeight(ws, lo, hi) == SumScaled(ws, lo, hi)

\* The cap test passed whatever the share.
BelowMaxFracAlways(d, total) == TRUE

\* `d / total < MOTIF_MAX_FRAC`, i.e. d * 10 < total, for total > 0
\* (written without the product).
BelowMaxFrac(d, total) ==
  d < (total + MOTIF_MAX_FRAC_INV - 1) \div MOTIF_MAX_FRAC_INV

\* The floor test passed whatever the share.
AboveMinFracAlways(d, total) == TRUE

\* `d / total > MOTIF_MIN_FRAC`, i.e. d * 100000 > total, for total > 0
\* (written without the product).
AboveMinFrac(d, total) == d > total \div MOTIF_MIN_FRAC_INV

\* The body of `if (motifs->IsMotif(nexts[best_next_idx]))` for motif k:
\* total is taken before the change; `d = *weight / MOTIF_ALPHA` when
\* newval > oldval, `d = *weight * MOTIF_ALPHA` otherwise.
Reweight(ws, k, improved) ==
  LET d == Info(ws[k].base, IF improved THEN ws[k].ups + 1
                                        ELSE ws[k].ups - 1)
      lo == LoUps(ws, d)
      hi == HiUps(ws, d)
      total == GetTotalWeight(ws, lo, hi)
  IN IF improved
     THEN IF BelowMaxFrac(Scaled(d, lo, hi), total)
          THEN [ws EXCEPT ![k] = d] ELSE ws
     ELSE IF AboveMinFrac(Scaled(d, lo, hi), total)
          THEN [ws EXCEPT ![k] = d] ELSE ws

\* The motif libraries of the model: the weights the motifs start with.
MotifBases == {1, 12, 999999}
MotifLibraries ==
  {[i \in 1..Len(b) |-> Info(b[i], 0)] :
     b \in [1..3 -> MotifBases] \cup {<<1, 999999>>}}

\* ParallelStep has chosen a next and TakeBestAmong has committed it: the
\* next is motif k of the library, or no motif (k = 0), and the commit
\* has raised the normalized value or not.
ReweightStep ==
  /\ mpc = "ready"
  /\ mrounds < MaxReweighs
  /\ \E k \in 0..Len(mweights), improved \in BOOLEAN :
       /\ mweights' = IF k = 0 THEN mweights
                      ELSE Reweight(mweights, k, improved)
       /\ lastnext' = k
       /\ lastup' = improved
  /\ lastw' = mweights
  /\ mrounds' = mrounds + 1
  /\ UNCHANGED <<mpc, playerVars, poolVars, selectVars, inputVars,
                 observeVars, objVars, restVars>>

InitMotif ==
  /\ PlayerIdle /\ PoolIdle /\ SelectIdle /\ InputIdle /\ ObserveIdle
  /\ ObjIdle /\ RestIdle
  /\ mpc = "ready" /\ mweights \in MotifLibraries /\ lastw = mweights
  /\ lastnext = 0 /\ lastup = FALSE /\ mrounds = 0
NextMotif == ReweightStep
SpecMotif == InitMotif /\ [][NextMotif]_vars

----------------------------------------------------------------------------
(* PlayFun::Dualize and PlayFun::ReverseRange, each run twice over the     *)
(* same span of a vector of inputs.                                        *)

\* The buttons of an input byte (simplefm2.h).
INPUT_R == 128
INPUT_L == 64
INPUT_D == 32
INPUT_U == 16
INPUT_T == 8
INPUT_S == 4
INPUT_B == 2
INPUT_A == 1

\* `!!(input & mask)` for a one-bit mask.
Button(input, mask) == (input \div mask) % 2

\* The loop body of Dualize with `if (a) newinput |= INPUT_B` left out.
DualizeInputNoA(input) ==
    Button(input, INPUT_R) * INPUT_L + Button(input, INPUT_L) * INPUT_R
  + Button(input, INPUT_D) * INPUT_U + Button(input, INPUT_U) * INPUT_D
  + Button(input, INPUT_T) * INPUT_S + Button(input, INPUT_S) * INPUT_T
  + Button(input, INPUT_B) * INPUT_A

\* The loop body of Dualize: newinput of input (the masks are distinct
\* bits, so the |= add up).
DualizeInput(input) ==
    Button(input, INPUT_R) * INPUT_L + Button(input, INPUT_L) * INPUT_R
  + Button(input, INPUT_D) * INPUT_U + Button(input, INPUT_U) * INPUT_D
  + Button(input, INPUT_T) * INPUT_S + Button(input, INPUT_S) * INPUT_T
  + Button(input, INPUT_B) * INPUT_A + Button(input, INPUT_A) * INPUT_B

\* The CHECKs of both: `start >= 0` and `(start + len) <= v->size()`,
\* start being startidx.
SpanChecks(v, startidx, len) == startidx >= 0 /\ startidx + len <= Len(v)

\* PlayFun::Dualize(v, start, len): (*v)[start + i] for i < len
\* (indices 1-based here).
Dualize(v, startidx, len) ==
  [j \in 1..Len(v) |->
     IF startidx < j /\ j <= startidx + len THEN DualizeInput(v[j]) ELSE v[j]]

\* PlayFun::ReverseRange(v, start, len):
\* `vnew[i] = (*v)[(start + len - 1) - i]` for i < len, vnew a copy of *v
\* (indices 1-based here: j = i + 1).
ReverseRange(v, startidx, len) ==
  [j \in 1..Len(v) |->
     IF j <= len THEN v[(startidx + len - 1) - (j - 1) + 1] ELSE v[j]]

\* Input bytes that between them hold every button.
ButtonSamples == {0, INPUT_R + INPUT_A, INPUT_L + INPUT_B,
                  INPUT_D + INPUT_S, INPUT_U + INPUT_T}

\* One call on vec; result is what the operation makes of it.
SpanCall(result) ==
  /\ vpc \in {"start", "once"}
  /\ IF SpanChecks(vec, vstart, vlen)
     THEN /\ vec' = result
          /\ vpc' = IF vpc = "start" THEN "once" ELSE "twice"
     ELSE /\ vpc' = "aborted"
          /\ vec' = vec
  /\ vmid' = IF vpc = "start" THEN vec' ELSE vmid
  /\ UNCHANGED <<vop, vec0, vstart, vlen, playerVars, poolVars, selectVars,
                 motifVars, observeVars, objVars, restVars>>

DualizeCall ==
  /\ vop = "Dualize"
  /\ SpanCall(Dualize(vec, vstart, vlen))

ReverseRangeCall ==
  /\ vop = "ReverseRange"
  /\ SpanCall(ReverseRange(vec, vstart, vlen))

InitInputs ==
  /\ PlayerIdle /\ PoolIdle /\ SelectIdle /\ MotifIdle /\ ObserveIdle
  /\ ObjIdle /\ RestIdle
  /\ vpc = "start"
  /\ vop \in {"Dualize", "ReverseRange"}
  /\ vec \in SeqsUpTo(ButtonSamples, MaxVecLen)
  /\ vec0 = vec /\ vmid = vec
  /\ vstart \in 0..MaxVecLen
  /\ vlen \in 0..MaxVecLen
NextInputs == DualizeCall \/ ReverseRangeCall
SpecInputs == InitInputs /\ [][NextInputs]_vars

----------------------------------------------------------------------------
(* WeightedObjectives (util.h): Observe.  A memory is the sequence of its  *)
(* bytes; an objective is a sequence of (0-based) memory locations.        *)

\* `if (size < 64)`, `size >= 64 ?`: the most observations an objective
\* keeps.
MAX_OBSERVATIONS == 64

\* `memory[*i]`
MemAt(memory, loc) == memory[loc + 1]

\* `cur`: the bytes of memory at the objective's locations, in its order.
Projection(memory, obj) == [i \in 1..Len(obj) |-> MemAt(memory, obj[i])]

\* operator< of vector<uint8>: lexicographic.
LexLess(a, b) ==
  \/ \E i \in 1..Len(a) :
       /\ i <= Len(b)
       /\ a[i] < b[i]
       /\ \A j \in 1..(i - 1) : a[j] = b[j]
  \/ /\ Len(a) < Len(b)
     /\ \A j \in 1..Len(a) : a[j] = b[j]

\* std::sort left out.
SortNone(obs) == obs

\* std::sort(observations.begin(), observations.end()): the elements of
\* obs in ascending order.  The least of the values left is taken, all
\* its copies are put next, and so on.
RECURSIVE SortFrom(_, _)
SortFrom(obs, vals) ==
  IF vals = {} THEN <<>>
  ELSE LET least == CHOOSE x \in vals : \A y \in vals : ~LexLess(y, x)
       IN SelectSeq(obs, LAMBDA e : e = least)
            \o SortFrom(obs, vals \ {least})

Sort(obs) == SortFrom(obs, {obs[j] : j \in 1..Len(obs)})

\* The body of Observe's loop for one objective; r is what rand() returns.
ObserveOne(obs, obj, memory, r) ==
  LET size == Len(obs)
      grown == IF size < MAX_OBSERVATIONS THEN Append(obs, <<>>) ELSE obs
      slot == IF size >= MAX_OBSERVATIONS THEN (r % size) + 1
              ELSE Len(grown)
  IN Sort([grown EXCEPT ![slot] = Projection(memory, obj)])

\* The objectives, the memories observed and the values of rand() the
\* model draws from.
ObserveObjectives == << <<0>>, <<1, 0>> >>
ObserveMemories == { <<0, 1>>, <<1, 0>> }
RandSamples == {0, 37, 63}

\* WeightedObjectives::Observe(memory).
Observe ==
  /\ obpc = "ready"
  /\ nobserved < MaxObserves
  /\ \E memory \in ObserveMemories,
        r \in [1..Len(ObserveObjectives) -> RandSamples] :
       observations' =
         [o \in 1..Len(ObserveObjectives) |->
            ObserveOne(observations[o], ObserveObjectives[o], memory, r[o])]
  /\ nobserved' = nobserved + 1
  /\ UNCHANGED <<obpc, playerVars, poolVars, selectVars, motifVars,
                 inputVars, objVars, restVars>>

InitObserve ==
  /\ PlayerIdle /\ PoolIdle /\ SelectIdle /\ MotifIdle /\ InputIdle
  /\ ObjIdle /\ RestIdle
  /\ obpc = "ready"
  /\ observations = [o \in 1..Len(ObserveObjectives) |-> <<>>]
  /\ nobserved = 0
NextObserve == Observe
SpecObserve == InitObserve /\ [][NextObserve]_vars

----------------------------------------------------------------------------
(* WeightedObjectives (util.h): LessObjective, Order, WeightedLess and     *)
(* Evaluate.  The weights are doubles; the model's are whole numbers.      *)

RADIX == 2

\* LessObjective returning true for equal memories.
LessObjectiveOrEqual(m1, m2, order) ==
  \/ \E i \in 1..Len(order) :
       /\ MemAt(m1, order[i]) < MemAt(m2, order[i])
       /\ \A j \in 1..(i - 1) : MemAt(m1, order[j]) = MemAt(m2, order[j])
  \/ \A j \in 1..Len(order) : MemAt(m1, order[j]) = MemAt(m2, order[j])

\* LessObjective(mem1, mem2, order): at the first location of order where
\* the memories differ mem1 is smaller; false when they differ nowhere.
LessObjective(m1, m2, order) ==
  \E i \in 1..Len(order) :
    /\ MemAt(m1, order[i]) < MemAt(m2, order[i])
    /\ \A j \in 1..(i - 1) : MemAt(m1, order[j]) = MemAt(m2, order[j])

\* Order(mem1, mem2, order), times RADIX^Len(order): the loop runs from
\* the last location to the first with `val += (mem2[*it] - mem1[*it]);
\* val /= RADIX;`, so the k-th location from the end adds its difference
\* divided by RADIX^k.  OrderNum(m1, m2, order, n) is the loop over the
\* first n locations only, times RADIX^n.
RECURSIVE OrderNum(_, _, _, _)
OrderNum(m1, m2, order, n) ==
  IF n = 0 THEN 0
  ELSE (MemAt(m2, order[n]) - MemAt(m1, order[n]))
       + RADIX * OrderNum(m1, m2, order, n - 1)

\* The sum of f[x] over the objectives in objs.
RECURSIVE SumOver(_, _)
SumOver(f, objs) ==
  IF objs = {} THEN 0
  ELSE LET x == CHOOSE y \in objs : TRUE
       IN f[x] + SumOver(f, objs \ {x})

\* WeightedLess(mem1, mem2) before its CHECK: the local score.
WeightedLessScore(w, m1, m2) ==
  SumOver([obj \in DOMAIN w |->
             IF LessObjective(m1, m2, obj) THEN w[obj] ELSE 0], DOMAIN w)

\* `CHECK(score >= 0)`
WeightedLessCheck(score) == score >= 0

\* The objectives of the model, and the longest of them.
ObjectiveSamples == { <<0>>, <<1>>, <<1, 0>> }
EvalScale == RADIX * RADIX

\* Evaluate(mem1, mem2), times EvalScale (RADIX^2, the objectives having
\* at most two locations): the sum of weight * Order.
Evaluate(w, m1, m2) ==
  SumOver([obj \in DOMAIN w |->
             w[obj] * OrderNum(m1, m2, obj, Len(obj))
                    * (IF Len(obj) = 1 THEN RADIX ELSE 1)], DOMAIN w)

\* The weights an objective set can hold: 1.0 from the constructor, a
\* score or 0.0 from WeightByExamples, any number from LoadFromFile.
WeightSamples == {-1, 0, 1, 2}
ObjectiveSets ==
  UNION {[objs -> WeightSamples] : objs \in (SUBSET ObjectiveSamples) \ {{}}}
MemorySamples == [1..2 -> {0, 3, 255}]

\* WeightedLess(mem1, mem2), then WeightedLess(mem2, mem1).
WeightedLessCalls ==
  /\ opc = "start"
  /\ LET s12 == WeightedLessScore(weighted, mem1, mem2)
         s21 == WeightedLessScore(weighted, mem2, mem1)
     IN IF WeightedLessCheck(s12) /\ WeightedLessCheck(s21)
        THEN /\ wless12' = s12
             /\ wless21' = s21
             /\ opc' = "less"
        ELSE /\ opc' = "aborted"
             /\ UNCHANGED <<wless12, wless21>>
  /\ UNCHANGED <<weighted, mem1, mem2, eval12, playerVars, poolVars,
                 selectVars, motifVars, inputVars, observeVars, restVars>>

\* Evaluate(mem1, mem2).
EvaluateCall ==
  /\ opc = "less"
  /\ eval12' = Evaluate(weighted, mem1, mem2)
  /\ opc' = "evaluated"
  /\ UNCHANGED <<weighted, mem1, mem2, wless12, wless21, playerVars,
                 poolVars, selectVars, motifVars, inputVars, observeVars,
                 restVars>>

InitObjectives ==
  /\ PlayerIdle /\ PoolIdle /\ SelectIdle /\ MotifIdle /\ InputIdle
  /\ ObserveIdle /\ RestIdle
  /\ opc = "start"
  /\ weighted \in ObjectiveSets
  /\ mem1 \in MemorySamples
  /\ mem2 \in MemorySamples
  /\ wless12 = 0 /\ wless21 = 0 /\ eval12 = 0
NextObjectives == WeightedLessCalls \/ EvaluateCall
SpecObjectives == InitObjectives /\ [][NextObjectives]_vars

----------------------------------------------------------------------------
(* One selector round: ParallelStep as built without MARIONET (the local   *)
(* loop) and as built with MARIONET (one request per next, answered by     *)
(* helpers in any order), on the same state, nexts and futures.            *)
(*                                                                         *)
(* The emulator's memory and the objectives are not tracked here: what     *)
(* InnerLoop reads off them is a fixed function of the emulator state      *)
(* reached.  Scores are kept times FoldScale.                              *)

FoldScale == 8

\* `objectives->Evaluate(current_memory, new_memory)`
EvaluateOf(s0, s1) == (s1 % 5) - (s0 % 5)
\* ScoreByFuture's integral_score, positive_scores and negative_scores at
\* the state h the future ends in.
IntegralOf(h) == (h % 3) - 1
PositiveOf(h) == (h \div 3) % 2
NegativeOf(h) == 0 - ((h \div 6) % 2)

\* The sum of futures[lo..hi].inputs.size().
RECURSIVE TotalFutureLength(_, _, _)
TotalFutureLength(fs, lo, hi) ==
  IF lo > hi THEN 0
  ELSE IF lo = hi THEN Len(fs[lo].inputs)
  ELSE LET mid == (lo + hi) \div 2
       IN TotalFutureLength(fs, lo, mid) + TotalFutureLength(fs, mid + 1, hi)

\* The k-th largest of the values of a sequence: what std::sort leaves at
\* position size - k.
KthLargest(vals, k) ==
  CHOOSE v \in {vals[j] : j \in 1..Len(vals)} :
    /\ Cardinality({j \in 1..Len(vals) : vals[j] >= v}) >= k
    /\ Cardinality({j \in 1..Len(vals) : vals[j] > v}) < k

\* `*future_score = *future_score/2 + future_integral_scores[f]/2` over
\* the sorted scores, times FoldScale: the best future counts 1/2, the
\* next 1/4, the third 1/8.  The terms of the other futures, each at most
\* 1/16 of a score, are left out.
FutureScore(integrals) ==
  4 * KthLargest(integrals, 1) + 2 * KthLargest(integrals, 2)
    + KthLargest(integrals, 3)

\* PlayFun::InnerLoop(next, futures_orig, current_state, ..., futurescores):
\* the scores it returns and the futurescores it leaves.  The diagnostic
\* outputs (normalized_score, best_future_score, worst_future_score) do
\* not reach the choice and are left out.
InnerLoop(next, futures_orig, current_state, futurescores) ==
  LET new_state == EmuRun(current_state, next)
      average_future_length ==
        TotalFutureLength(futures_orig, 1, Len(futures_orig))
          \div Len(futures_orig)
      fakefuture_hold ==
        [inputs |-> [z \in 1..average_future_length |-> next[Len(next)]]]
      futs == Append(futures_orig, fakefuture_hold)
      h == [f \in 1..Len(futs) |-> EmuRun(new_state, futs[f].inputs)]
  IN [immediate_score |-> FoldScale * EvaluateOf(current_state, new_state),
      future_score |->
        FutureScore([f \in 1..Len(futs) |-> IntegralOf(h[f])]),
      futurescores |->
        [f \in 1..Len(futurescores) |->
           IF f <= Len(futures_orig)
           THEN futurescores[f]
                + FoldScale * (IntegralOf(h[f]) + PositiveOf(h[f])
                               + NegativeOf(h[f]))
           ELSE futurescores[f]]]

\* `(*futuretotals)[f] += futurescores[f]` for every f below
\* futurescores.size().
AddTotals(totals, futurescores) ==
  [f \in 1..Len(totals) |->
     IF f <= Len(futurescores) THEN totals[f] + futurescores[f]
     ELSE totals[f]]

\* The local version of ParallelStep's loop, from next i (0-based) on.
RECURSIVE LocalLoop(_, _, _, _, _, _, _)
LocalLoop(nexts, futs, current_state, i, totals, idx, best) ==
  IF i >= Len(nexts)
  THEN [best_next_idx |-> idx, best_score |-> best, futuretotals |-> totals]
  ELSE LET r == InnerLoop(nexts[i + 1], futs, current_state,
                          [f \in 1..NFUTURES |-> 0])
           score == r.immediate_score + r.future_score
           t == AddTotals(totals, r.futurescores)
       IN IF score > best
          THEN LocalLoop(nexts, futs, current_state, i + 1, t, i, score)
          ELSE LocalLoop(nexts, futs, current_state, i + 1, t, idx, best)

\* The request that carries the first next whatever i is.
PlayFunRequestFirstNext(current_state, nexts, i, futs) ==
  [current_state |-> current_state,
   next |-> nexts[1],
   futures |-> [f \in 1..Len(futs) |-> futs[f].inputs]]

\* requests[i] (i 1-based): `req->set_current_state(...); req->set_next(
\* &nexts[i][0], ...)` and one FutureProto per future.
PlayFunRequest(current_state, nexts, i, futs) ==
  [current_state |-> current_state,
   next |-> nexts[i],
   futures |-> [f \in 1..Len(futs) |-> futs[f].inputs]]

\* A PlayFunResponse nothing has been set in.
NoResponse == [immediate_score |-> 0, futures_score |-> 0,
               futurescores |-> <<>>]

\* The helper that sends no futurescores.
HelperPlayFunNoFutureScores(req) ==
  LET futs == [f \in 1..Len(req.futures) |-> [inputs |-> req.futures[f]]]
      r == InnerLoop(req.next, futs, req.current_state,
                     [f \in 1..Len(futs) |-> 0])
  IN [immediate_score |-> r.immediate_score,
      futures_score |-> r.future_score,
      futurescores |-> <<>>]

\* Helper's answer to a PlayFunRequest: the futures are rebuilt from the
\* request, futurescores has futures.size() zeros, InnerLoop does the
\* work and the response is filled from its outputs.
HelperPlayFun(req) ==
  LET futs == [f \in 1..Len(req.futures) |-> [inputs |-> req.futures[f]]]
      r == InnerLoop(req.next, futs, req.current_state,
                     [f \in 1..Len(futs) |-> 0])
  IN [immediate_score |-> r.immediate_score,
      futures_score |-> r.future_score,
      futurescores |-> r.futurescores]

\* GetAnswers<HelperRequest, PlayFunResponse>::Work
Work(req, done, res) == [req |-> req, done |-> done, res |-> res]

\* ParallelStep's loop over getanswers.GetWork(), from work[i] (0-based).
RECURSIVE CollectLoop(_, _, _, _, _)
CollectLoop(wk, i, totals, idx, best) ==
  IF i >= Len(wk)
  THEN [best_next_idx |-> idx, best_score |-> best, futuretotals |-> totals]
  ELSE LET res == wk[i + 1].res
           score == res.immediate_score + res.futures_score
           t == AddTotals(totals, res.futurescores)
       IN IF score > best
          THEN CollectLoop(wk, i + 1, t, i, score)
          ELSE CollectLoop(wk, i + 1, t, idx, best)

\* The states, nexts and futures of the model's rounds.
RoundStates == {EmuInitial, 7, 100, 4242}
RoundNexts == {MotifA, MotifB, Repeat(8, INPUTS_PER_NEXT)}
NextLists ==
  {ns \in UNION {[1..n -> RoundNexts] : n \in 1..MaxNexts} :
     \A i, j \in 1..Len(ns) : i # j => ns[i] # ns[j]}
FuturePools ==
  {[f \in 1..NFUTURES |-> [inputs |-> <<(f * k) % 3, 8>>]] : k \in {1, 2}}

\* TakeBestAmong's `vector<double> futuretotals(futures->size(), 0.0)`
ZeroTotals(futs) == [f \in 1..Len(futs) |-> 0]

\* ParallelStep built without MARIONET.
ParallelStepLocal ==
  /\ rpc = "start"
  /\ Len(rnexts) > 0
  /\ LET r == LocalLoop(rnexts, rfutures, rstate, 0, ZeroTotals(rfutures),
                        0, 0)
     IN /\ lbest' = r.best_next_idx
        /\ ltotals' = r.futuretotals
  /\ rpc' = "local"
  /\ UNCHANGED <<rstate, rnexts, rfutures, requests, work, completed, rbest,
                 rtotals, oldVars, exceptRoundVars>>

\* ParallelStep built with MARIONET, up to getanswers.Loop(): one piece of
\* work per request.
ParallelStepSend ==
  /\ rpc = "local"
  /\ Len(rnexts) > 0
  /\ requests' = [i \in 1..Len(rnexts) |->
                    PlayFunRequest(rstate, rnexts, i, rfutures)]
  /\ work' = [i \in 1..Len(rnexts) |->
                Work(PlayFunRequest(rstate, rnexts, i, rfutures), FALSE,
                     NoResponse)]
  /\ rpc' = "waiting"
  /\ UNCHANGED <<rstate, rnexts, rfutures, completed, lbest, ltotals, rbest,
                 rtotals, oldVars, exceptRoundVars>>

\* getanswers.Loop(): some helper answers some request that has no answer
\* yet; the answer goes to the work item of that request.
HelperAnswers ==
  /\ rpc = "waiting"
  /\ \E i \in 1..Len(work) :
       /\ ~work[i].done
       /\ work' = [work EXCEPT ![i] =
                     Work(work[i].req, TRUE, HelperPlayFun(work[i].req))]
       /\ completed' = Append(completed, i)
  /\ UNCHANGED <<rpc, rstate, rnexts, rfutures, requests, lbest, ltotals,
                 rbest, rtotals, oldVars, exceptRoundVars>>

\* ParallelStep built with MARIONET, after getanswers.Loop() has returned.
ParallelStepCollect ==
  /\ rpc = "waiting"
  /\ \A i \in 1..Len(work) : work[i].done
  /\ LET r == CollectLoop(work, 0, ZeroTotals(rfutures), 0, 0)
     IN /\ rbest' = r.best_next_idx
        /\ rtotals' = r.futuretotals
  /\ rpc' = "done"
  /\ UNCHANGED <<rstate, rnexts, rfutures, requests, work, completed, lbest,
                 ltotals, oldVars, exceptRoundVars>>

InitRound ==
  /\ PlayerIdle /\ OldIdle /\ ExceptRoundIdle
  /\ rpc = "start"
  /\ rstate \in RoundStates
  /\ rnexts \in NextLists
  /\ rfutures \in FuturePools
  /\ requests = <<>> /\ work = <<>> /\ completed = <<>>
  /\ lbest = 0 /\ ltotals = <<>> /\ rbest = 0 /\ rtotals = <<>>
NextRound == ParallelStepLocal \/ ParallelStepSend \/ HelperAnswers
               \/ ParallelStepCollect
SpecRound == InitRound /\ [][NextRound]_vars

----------------------------------------------------------------------------
(* main: which of Master and Helper runs, and who services the requests    *)
(* of a selector round (ParallelStep) and of a backtrack attempt           *)
(* (TryImprove), in the build with MARIONET and in the build without.      *)

NUM_IMPROVE_RANDOM == 10
NUM_ABLATE == 10
NUM_CHOP == 10
NUM_SHUFFLE == 10

\* The requests TryImprove makes: one DUALIZE (TRY_DUALIZE is true) and
\* NUM_ABLATE, NUM_CHOP, NUM_SHUFFLE and NUM_IMPROVE_RANDOM of the others.
TryImproveRequests ==
  1 + NUM_ABLATE + NUM_CHOP + NUM_SHUFFLE + NUM_IMPROVE_RANDOM

Batch(kind, size, inprocess, remote) ==
  [kind |-> kind, size |-> size, inprocess |-> inprocess, remote |-> remote]
NoBatch == Batch("none", 0, 0, 0)

\* main with `#ifdef MARIONET` resolved: built with MARIONET it calls
\* Helper when config.helpers is empty and Master otherwise; built without
\* it always calls Master.
MainRole(build, nhelpers) ==
  IF build = "MARIONET"
  THEN IF nhelpers = 0 THEN "helper" ELSE "master"
  ELSE "master"

\* ParallelStep that sends its requests off in every build.
ParallelStepBatchRemote(build, n) == Batch("playfun", n, 0, n)

\* ParallelStep on n nexts: with MARIONET one request per next goes to
\* GetAnswers, without it InnerLoop runs n times in the loop.
ParallelStepBatch(build, n) ==
  IF build = "MARIONET" THEN Batch("playfun", n, 0, n)
  ELSE Batch("playfun", n, n, 0)

\* TryImprove: with MARIONET the requests go to GetAnswers; without it
\* "TryImprove requires MARIONET..." is printed, nothing is tried and
\* replacements stays empty.
TryImproveBatch(build) ==
  IF build = "MARIONET"
  THEN Batch("tryimprove", TryImproveRequests, 0, TryImproveRequests)
  ELSE Batch("tryimprove", 0, 0, 0)

Main ==
  /\ mrole = "start"
  /\ mrole' = MainRole(mbuild, mhelpers)
  /\ UNCHANGED <<mbuild, mhelpers, mbatch, mbatches, oldVars, exceptMainVars>>

\* A selector round of Master: TakeBestAmong calls ParallelStep.
MasterParallelStep ==
  /\ mrole = "master"
  /\ mbatches < MaxBatches
  /\ \E n \in 1..MaxNexts : mbatch' = ParallelStepBatch(mbuild, n)
  /\ mbatches' = mbatches + 1
  /\ UNCHANGED <<mbuild, mhelpers, mrole, oldVars, exceptMainVars>>

\* A backtrack attempt of Master: MaybeBacktrack calls TryImprove.
MasterTryImprove ==
  /\ mrole = "master"
  /\ mbatches < MaxBatches
  /\ mbatch' = TryImproveBatch(mbuild)
  /\ mbatches' = mbatches + 1
  /\ UNCHANGED <<mbuild, mhelpers, mrole, oldVars, exceptMainVars>>

\* Helper's loop: one connection.
HelperConnection ==
  /\ mrole = "helper"
  /\ mbatches < MaxBatches
  /\ mbatch' = Batch("connection", 1, 1, 0)
  /\ mbatches' = mbatches + 1
  /\ UNCHANGED <<mbuild, mhelpers, mrole, oldVars, exceptMainVars>>

InitMain ==
  /\ PlayerIdle /\ OldIdle /\ ExceptMainIdle
  /\ mbuild \in {"MARIONET", "plain"}
  /\ mhelpers \in 0..2
  /\ mrole = "start"
  /\ mbatch = NoBatch
  /\ mbatches = 0
NextMain == Main \/ MasterParallelStep \/ MasterTryImprove
              \/ HelperConnection
SpecMain == InitMain /\ [][NextMain]_vars

----------------------------------------------------------------------------
(* PlayFun::Helper: the loop of a helper.  A step is one call of the       *)
(* server (Listen, ReadProto, WriteProto, Hangup) or the work between      *)
(* ReadProto and WriteProto.  RequestCache is a cache of the last          *)
(* RequestCacheSize requests and their responses, most recent first.       *)

RequestCacheSize == 8

HelperRequest(kind, id) == [kind |-> kind, id |-> id]
NoRequest == HelperRequest("none", 0)
HelperResponse(kind, id) == [kind |-> kind, of |-> id]
NoHelperResponse == HelperResponse("none", 0)

\* RequestCache::Lookup: whether the request is held, and its response.
Held(c, req) == \E k \in 1..Len(c) : c[k].req = req
Stored(c, req) == c[CHOOSE k \in 1..Len(c) : c[k].req = req].res

\* A request that was looked up and found becomes the most recent.
Touch(c, req) ==
  <<[req |-> req, res |-> Stored(c, req)]>>
    \o SelectSeq(c, LAMBDA e : e.req # req)

\* RequestCache::Save: the request becomes the most recent; beyond
\* RequestCacheSize entries the least recent one is dropped.
CacheSave(c, req, res) ==
  LET all == <<[req |-> req, res |-> res]>>
               \o SelectSeq(c, LAMBDA e : e.req # req)
  IN IF Len(all) > RequestCacheSize
     THEN SubSeq(all, 1, RequestCacheSize) ELSE all

\* The helper that keeps nothing.
HelperSaveNothing(c, req, res) == c

\* `cache.Save(hreq, res);` before `server.WriteProto(res)`.
HelperSave(c, req, res) == CacheSave(c, req, res)

\* The work of a request: InnerLoop for a playfun request, DoTryImprove
\* for a tryimprove request.  The response is a function of the request.
HelperCompute(req) == HelperResponse(req.kind, req.id)

\* The helper that gives up on a failed read.
AfterFailedReadStop == "stopped"

\* Where the loop goes when ReadProto fails: "Failed to read request..."
\* and on to server.Hangup().
AfterFailedRead == "hangup"

\* The requests a master may send next: one never sent before, the one
\* read last again, the least recent one of the cache, the first one ever
\* sent, or one of neither kind.
FreshRequest(n) ==
  HelperRequest(IF n % 2 = 0 THEN "playfun" ELSE "tryimprove", n + 1)
Incoming(c, last, n) ==
  {FreshRequest(n), HelperRequest("unknown", 0)}
    \cup (IF last = NoRequest THEN {} ELSE {last})
    \cup (IF c = <<>> THEN {} ELSE {c[Len(c)].req})
    \cup (IF n = 0 THEN {} ELSE {FreshRequest(0)})

\* `server.Listen(); connections++;`
Listen ==
  /\ hpc = "listen"
  /\ connections < MaxConnections
  /\ connected' = TRUE
  /\ connections' = connections + 1
  /\ reads' = 0
  /\ writes' = 0
  /\ hpc' = "read"
  /\ UNCHANGED <<hreq, hres, hfresh, hwrote, hfailed, cache, computed,
                 hfreshids, oldVars, exceptHelperVars>>

\* `if (server.ReadProto(&hreq))`
ReadProto ==
  /\ hpc = "read"
  /\ reads' = reads + 1
  /\ \/ /\ hpc' = AfterFailedRead
        /\ UNCHANGED <<hreq, hfreshids>>
     \/ \E r \in Incoming(cache, hreq, hfreshids) :
          /\ hreq' = r
          /\ hfreshids' = IF r = FreshRequest(hfreshids)
                          THEN hfreshids + 1 ELSE hfreshids
          /\ hpc' = "handle"
  /\ UNCHANGED <<connected, connections, hres, hfresh, writes, hwrote,
                 hfailed, cache, computed, oldVars, exceptHelperVars>>

\* Between ReadProto and WriteProto: the cached response, or the work and
\* cache.Save, or ".. unknown request??".
Handle ==
  /\ hpc = "handle"
  /\ IF Held(cache, hreq)
     THEN /\ hres' = Stored(cache, hreq)
          /\ hfresh' = FALSE
          /\ cache' = Touch(cache, hreq)
          /\ computed' = computed
          /\ hpc' = "write"
     ELSE IF hreq.kind \in {"playfun", "tryimprove"}
     THEN /\ hres' = HelperCompute(hreq)
          /\ hfresh' = TRUE
          /\ cache' = HelperSave(cache, hreq, HelperCompute(hreq))
          /\ computed' = computed + 1
          /\ hpc' = "write"
     ELSE /\ hpc' = "hangup"
          /\ UNCHANGED <<hres, hfresh, cache, computed>>
  /\ hfailed' = NoRequest
  /\ UNCHANGED <<connected, connections, hreq, reads, writes, hwrote,
                 hfreshids, oldVars, exceptHelperVars>>

\* `if (!server.WriteProto(res))`: "Failed to send ..." and keep going.
WriteProto ==
  /\ hpc = "write"
  /\ writes' = writes + 1
  /\ \/ hwrote' = "sent" /\ hfailed' = NoRequest
     \/ hwrote' = "failed" /\ hfailed' = hreq
  /\ hpc' = "hangup"
  /\ UNCHANGED <<connected, connections, hreq, hres, hfresh, reads, cache,
                 computed, hfreshids, oldVars, exceptHelperVars>>

\* `server.Hangup();` and around the loop.
Hangup ==
  /\ hpc = "hangup"
  /\ connected' = FALSE
  /\ hpc' = "listen"
  /\ UNCHANGED <<connections, hreq, hres, hfresh, reads, writes, hwrote,
                 hfailed, cache, computed, hfreshids, oldVars,
                 exceptHelperVars>>

InitHelper ==
  /\ PlayerIdle /\ OldIdle /\ ExceptHelperIdle
  /\ hpc = "listen" /\ connected = FALSE /\ connections = 0
  /\ hreq = NoRequest /\ hres = NoHelperResponse /\ hfresh = FALSE
  /\ reads = 0 /\ writes = 0 /\ hwrote = "none" /\ hfailed = NoRequest
  /\ cache = <<>> /\ computed = 0 /\ hfreshids = 0
NextHelper == Listen \/ ReadProto \/ Handle \/ WriteProto \/ Hangup
SpecHelper == InitHelper /\ [][NextHelper]_vars

----------------------------------------------------------------------------
(* PlayFun::DoTryImprove (playfun.cc): the helper's work on one            *)
(* improve-segment request.  The random draws of the loop (the span, the   *)
(* motifs, the mask, the shuffle) are choices from small sets.             *)

\* `static const int MAXBEST = 2;` in TryImprove.
MAXBEST == 2

\* The most iterations a request of the model asks for.
MaxImproveIters == 3

\* The segments the master asks to improve.
ImproveSegments == { MotifB \o <<8, 4>>, MotifA }

\* Approach of marionet.proto.
Approaches == {"RANDOM", "DUALIZE", "ABLATE", "CHOP", "SHUFFLE"}

\* PlayFun::ScoreIntegral(start_state, inputs, final_memory) from the k-th
\* input on: `sum += objectives->Evaluate(previous_memory, new_memory)`
\* after each step.  final is the state whose memory is swapped into
\* final_memory.
RECURSIVE ScoreIntegralFrom(_, _, _, _)
ScoreIntegralFrom(previous, inputs, k, sum) ==
  IF k > Len(inputs) THEN [sum |-> sum, final |-> previous]
  ELSE LET new == CachingStep(previous, inputs[k])
       IN ScoreIntegralFrom(new, inputs, k + 1,
                            sum + EvaluateOf(previous, new))

ScoreIntegral(start_state, inputs) ==
  ScoreIntegralFrom(start_state, inputs, 1, 0)

\* The TryImproveRequest of TryImprove: base_req with an approach and a
\* number of iterations.
TryImproveRequest(start_state, improveme, approach, niters) ==
  [start_state |-> start_state,
   improveme |-> improveme,
   end_state |-> EmuRun(start_state, improveme),
   end_integral |-> ScoreIntegral(start_state, improveme).sum,
   maxbest |-> MAXBEST,
   approach |-> approach,
   iters |-> niters]

\* IsImprovement with `if (n_minus_e < 0) return false;`.
IsImprovementStrict(start_state, inputs, end_state, e_minus_s, score) ==
  LET si == ScoreIntegral(start_state, inputs)
      n_minus_s == si.sum
      n_minus_e == EvaluateOf(end_state, si.final)
  IN IF n_minus_e < 0
     THEN [improved |-> FALSE, score |-> score]
     ELSE [improved |-> TRUE, score |-> (n_minus_s - e_minus_s) + n_minus_e]

\* PlayFun::IsImprovement(frac, start_state, start_memory, inputs,
\* end_memory, e_minus_s, score): what it returns and what it leaves in
\* *score.  end_memory is the memory of end_state.
IsImprovement(start_state, inputs, end_state, e_minus_s, score) ==
  LET si == ScoreIntegral(start_state, inputs)
      n_minus_s == si.sum
      n_minus_e == EvaluateOf(end_state, si.final)
  IN IF n_minus_e <= 0
     THEN [improved |-> FALSE, score |-> score]
     ELSE [improved |-> TRUE, score |-> (n_minus_s - e_minus_s) + n_minus_e]

\* One IsImprovement call: its inputs, *score before and after, and what
\* it returned.
Call(inputs, before, r) ==
  [inputs |-> inputs, before |-> before, improved |-> r.improved,
   score |-> r.score]

\* `make_pair(score, inputs)`
Pair(first, second) == [first |-> first, second |-> second]

\* PlayFun::GetRandomSpan(inputs, exponent, rc, startidx, len): the spans
\* <<startidx, len>> it can draw.  pow(RandomDouble, exponent) is below 1.
GetRandomSpan(inputs) ==
  IF Len(inputs) = 0 THEN {<<0, 0>>}
  ELSE UNION { {<<startidx, len>> :
                  startidx \in {0, Max(0, Len(inputs) - len - 1)}} :
               len \in {1, 2, Len(inputs) - 1}
                       \cap 1..Max(1, Len(inputs) - 1) }

\* PlayFun::ChopOut(inputs, startidx, len)
ChopOut(inputs, startidx, len) ==
  SubSeq(inputs, 1, startidx)
    \o SubSeq(inputs, startidx + len + 1, Len(inputs))

\* PlayFun::GetRandomInputs(rc, len) over the motifs MotifA and MotifB:
\* motifs end to end, cut to len inputs.
GetRandomInputs(len) ==
  { SubSeq(m1 \o m2, 1, len) : m1, m2 \in {MotifA, MotifB} }

\* `inputs[j] &= byte`
AndByte(input, byte) ==
    Button(input, INPUT_R) * Button(byte, INPUT_R) * INPUT_R
  + Button(input, INPUT_L) * Button(byte, INPUT_L) * INPUT_L
  + Button(input, INPUT_D) * Button(byte, INPUT_D) * INPUT_D
  + Button(input, INPUT_U) * Button(byte, INPUT_U) * INPUT_U
  + Button(input, INPUT_T) * Button(byte, INPUT_T) * INPUT_T
  + Button(input, INPUT_S) * Button(byte, INPUT_S) * INPUT_S
  + Button(input, INPUT_B) * Button(byte, INPUT_B) * INPUT_B
  + Button(input, INPUT_A) * Button(byte, INPUT_A) * INPUT_A

\* The ABLATE case: improveme with the mask `byte` (never 0xFF) on the
\* inputs of the span that `RandomInt32(&rc) < word` picks: all of them,
\* the first, or none.
Ablate(improveme, startidx, len) ==
  { [j \in 1..Len(improveme) |->
       IF j \in hit THEN AndByte(improveme[j], byte) ELSE improveme[j]] :
    byte \in {0, 255 - INPUT_A, 255 - INPUT_B},
    hit \in {(startidx + 1)..(startidx + len), {startidx + 1}, {}} }

\* The SHUFFLE case, random_shuffle over the span: left as it is, or its
\* two ends exchanged.
Shuffle(inputs, startidx, len) ==
  { inputs,
    [j \in 1..Len(inputs) |->
       IF len = 0 THEN inputs[j]
       ELSE IF j = startidx + 1 THEN inputs[startidx + len]
       ELSE IF j = startidx + len THEN inputs[startidx + 1]
       ELSE inputs[j]] }

\* PlayFun::TryDualizeAndReverse(term, frac, start_state, start_memory,
\* inputs, startidx, len, end_memory, end_integral, repls,
\* keepreversed):
\* the inputs and repls it leaves, and its two IsImprovement calls, which
\* share one score.
TryDualizeAndReverse(req, inputs, startidx, len, rs, keepreversed) ==
  LET dual == Dualize(inputs, startidx, len)
      c1 == IsImprovement(req.start_state, dual, req.end_state,
                          req.end_integral, 0)
      rs1 == IF c1.improved THEN Append(rs, Pair(c1.score, dual)) ELSE rs
      rev == ReverseRange(dual, startidx, len)
      c2 == IsImprovement(req.start_state, rev, req.end_state,
                          req.end_integral, c1.score)
      rs2 == IF c2.improved THEN Append(rs1, Pair(c2.score, rev)) ELSE rs1
  IN [inputs |-> IF keepreversed THEN rev
                 ELSE ReverseRange(rev, startidx, len),
      repls |-> rs2,
      calls |-> <<Call(dual, 0, c1), Call(rev, c1.score, c2)>>]

\* The switch on req.approach(): every <<inputs, repls, calls>> it can
\* leave.
Approach(req, inputs, rs) ==
  UNION {
    LET startidx == span[1]
        len == IF span[2] = 0 /\ startidx # Len(inputs) THEN 1 ELSE span[2]
        Same(new) == [inputs |-> new, repls |-> rs, calls |-> <<>>]
    IN CASE req.approach = "RANDOM" ->
              {Same(new) : new \in GetRandomInputs(Len(req.improveme))}
         [] req.approach = "DUALIZE" ->
              {TryDualizeAndReverse(req, inputs, startidx, len, rs, keep) :
                 keep \in BOOLEAN}
         [] req.approach = "ABLATE" ->
              {Same(new) : new \in Ablate(req.improveme, startidx, len)}
         [] req.approach = "CHOP" ->
              {Same(ChopOut(inputs, startidx, len))}
         [] req.approach = "SHUFFLE" ->
              {Same(new) : new \in Shuffle(inputs, startidx, len)}
    : span \in GetRandomSpan(inputs) }

\* CompareByFirstDesc with `a.first < b.first`.
CompareByFirst(a, b) == a.first < b.first

\* CompareByFirstDesc<F, S>::operator ()(a, b)
CompareByFirstDesc(a, b) == b.first < a.first

\* `std::sort(repls.begin(), repls.end(), CompareByFirstDesc())` then
\* `repls.resize(maxbest)`: every vector this can leave.  std::sort keeps
\* no order among pairs that neither comes before the other.
SortAndResize(rs, maxbest) ==
  { [j \in 1..maxbest |-> rs[p[j]]] :
    p \in { q \in [1..maxbest -> 1..Len(rs)] :
            /\ \A a, b \in 1..maxbest :
                 a < b => /\ q[a] # q[b]
                          /\ ~CompareByFirstDesc(rs[q[b]], rs[q[a]])
            /\ \A a \in 1..maxbest, r \in 1..Len(rs) :
                 (\A b \in 1..maxbest : q[b] # r)
                   => ~CompareByFirstDesc(rs[r], rs[q[a]]) } }

\* The TryImproveResponse built from the repls that are left.
TryImproveResponse(req, rs, nimproved) ==
  [inputs |-> [j \in 1..Len(rs) |-> rs[j].second],
   score |-> [j \in 1..Len(rs) |-> rs[j].first],
   iters_tried |-> req.iters,
   iters_better |-> nimproved]

\* The climb going on from a rejected candidate.
ClimbFromLast(improveme, inputs, accepted) == inputs

\* The inputs the next pass mutates: the inner loop goes on with the
\* candidate it accepted, and after a break the outer loop runs
\* `vector<uint8> inputs(improveme);` again.
ClimbFrom(improveme, inputs, accepted) ==
  IF accepted THEN inputs ELSE improveme

\* One pass through the body of the inner loop of DoTryImprove; a break
\* starts over from improveme.
TryImproveIteration ==
  /\ ipc = "loop"
  /\ ii < ireq.iters
  /\ \E step \in Approach(ireq, iinputs, repls) :
       LET skip == \/ Len(step.inputs) < INPUTS_PER_NEXT
                   \/ step.inputs \in tried
           c == IsImprovement(ireq.start_state, step.inputs, ireq.end_state,
                              ireq.end_integral, 0)
           push == Pair(c.score, step.inputs)
           pushed == [j \in 1..(Len(step.repls) - Len(repls)) |->
                        step.repls[Len(repls) + j]]
       IN IF skip \/ ~c.improved
          THEN /\ iinputs' = ClimbFrom(ireq.improveme, step.inputs, FALSE)
               /\ repls' = step.repls
               /\ found' = found \o pushed
               /\ tried' = tried
               /\ icalls' = IF skip THEN step.calls
                            ELSE Append(step.calls, Call(step.inputs, 0, c))
          ELSE /\ iinputs' = ClimbFrom(ireq.improveme, step.inputs, TRUE)
               /\ repls' = Append(step.repls, push)
               /\ found' = Append(found \o pushed, push)
               /\ tried' = tried \cup {step.inputs}
               /\ icalls' = Append(step.calls, Call(step.inputs, 0, c))
  /\ ii' = ii + 1
  /\ UNCHANGED <<ipc, ireq, ires, oldVars, exceptImproveVars>>

\* The end of DoTryImprove: nimproved, the sort and resize, and the
\* response.
TryImproveRespond ==
  /\ ipc = "loop"
  /\ ii >= ireq.iters
  /\ LET nimproved == Len(repls)
     IN \E rs \in IF Len(repls) > ireq.maxbest
                  THEN SortAndResize(repls, ireq.maxbest)
                  ELSE {repls} :
          /\ repls' = rs
          /\ ires' = TryImproveResponse(ireq, rs, nimproved)
  /\ ipc' = "built"
  /\ UNCHANGED <<ireq, ii, iinputs, found, tried, icalls, oldVars,
                 exceptImproveVars>>

InitImprove ==
  /\ PlayerIdle /\ OldIdle /\ ExceptImproveIdle
  /\ ipc = "loop"
  /\ \E start_state \in RoundStates, improveme \in ImproveSegments,
        approach \in Approaches, niters \in 1..MaxImproveIters :
       ireq = TryImproveRequest(start_state, improveme, approach, niters)
  /\ ii = 0
  /\ iinputs = ireq.improveme
  /\ repls = <<>> /\ found = <<>> /\ tried = {} /\ icalls = <<>>
  /\ ires = <<>>
NextImprove == TryImproveIteration \/ TryImproveRespond
SpecImprove == InitImprove /\ [][NextImprove]_vars

----------------------------------------------------------------------------
(* Order (util.h), the rank of one objective between two memories, called  *)
(* both ways round.  Its double is kept exactly, as num / den.             *)

\* The memories and objectives Order is run on.
OrderBytes == {0, 10, 20, 24, 255}
OrderMemories == [1..2 -> OrderBytes]
MaxOrderLen == 3
OrderObjectives == SeqsUpTo({0, 1}, MaxOrderLen)

\* `val += (mem2[*it] - mem1[*it]);`
OrderAdd(val, m1, m2, loc) ==
  [num |-> val.num + (MemAt(m2, loc) - MemAt(m1, loc)) * val.den,
   den |-> val.den]

\* `val /= RADIX;`
OrderDivide(val) == [num |-> val.num, den |-> val.den * RADIX]

\* The loop of Order run from order.begin() to order.end(): it at the
\* k-th location.
RECURSIVE OrderForwardFrom(_, _, _, _, _)
OrderForwardFrom(m1, m2, order, k, val) ==
  IF k > Len(order) THEN val
  ELSE OrderForwardFrom(m1, m2, order, k + 1,
                        OrderDivide(OrderAdd(val, m1, m2, order[k])))

\* The loop of Order from order.rbegin() to order.rend(): it at the k-th
\* location, val as the locations after it left it.
RECURSIVE OrderFrom(_, _, _, _, _)
OrderFrom(m1, m2, order, k, val) ==
  IF k = 0 THEN val
  ELSE OrderFrom(m1, m2, order, k - 1,
                 OrderDivide(OrderAdd(val, m1, m2, order[k])))

\* Order with a forward iterator.
OrderForward(m1, m2, order) ==
  OrderForwardFrom(m1, m2, order, 1, [num |-> 0, den |-> 1])

\* Order(mem1, mem2, order)
Order(m1, m2, order) ==
  OrderFrom(m1, m2, order, Len(order), [num |-> 0, den |-> 1])

\* Order(mem1, mem2, order) as Evaluate calls it.
OrderCall ==
  /\ ordpc = "start"
  /\ oval' = Order(omem1, omem2, oorder)
  /\ ordpc' = "ordered"
  /\ UNCHANGED <<omem1, omem2, oorder, orev, oldVars, exceptOrderVars>>

\* Order(mem2, mem1, order): the same objective with the memories
\* exchanged.
OrderBack ==
  /\ ordpc = "ordered"
  /\ orev' = Order(omem2, omem1, oorder)
  /\ ordpc' = "both"
  /\ UNCHANGED <<omem1, omem2, oorder, oval, oldVars, exceptOrderVars>>

InitOrder ==
  /\ PlayerIdle /\ OldIdle /\ ExceptOrderIdle
  /\ ordpc = "start"
  /\ omem1 \in OrderMemories
  /\ omem2 \in OrderMemories
  /\ oorder \in OrderObjectives
  /\ oval = <<>> /\ orev = <<>>
NextOrder == OrderCall \/ OrderBack
SpecOrder == InitOrder /\ [][NextOrder]_vars

----------------------------------------------------------------------------
(* WeightedObjectives (util.h): GetValueFrac, GetNormalizedValue and       *)
(* WeightByExamples.  A double is kept exactly, as num / den; 0 / 0 is     *)
(* the NaN that dividing 0.0 by 0 gives, and the sums and quotients        *)
(* below carry it along as the doubles do.                                 *)

\* The most Observe calls before a GetNormalizedValue call, and the
\* longest trajectory given to WeightByExamples.
MaxNormObserves == 2
MaxTrajectory == 3

Frac(num, den) == [num |-> num, den |-> den]
FracAdd(a, b) == Frac(a.num * b.den + b.num * a.den, a.den * b.den)
FracSub(a, b) == Frac(a.num * b.den - b.num * a.den, a.den * b.den)
FracDiv(a, n) == Frac(a.num, a.den * n)
IsNaN(a) == a.den = 0 /\ a.num = 0

\* GetValues(mem, objective)
GetValues(mem, objective) ==
  [i \in 1..Len(objective) |-> MemAt(mem, objective[i])]

\* A set of value vectors in ascending order, as iterating a
\* set< vector<uint8> > gives them.
RECURSIVE InOrder(_)
InOrder(values) ==
  IF values = {} THEN <<>>
  ELSE LET least == CHOOSE x \in values : \A y \in values : ~LexLess(y, x)
       IN <<least>> \o InOrder(values \ {least})

\* GetUniqueValues without the set: the values of all the memories, in
\* ascending order.
GetSortedValues(mems, objective) ==
  Sort([i \in 1..Len(mems) |-> GetValues(mems[i], objective)])

\* GetUniqueValues(memories, objective)
GetUniqueValues(mems, objective) ==
  InOrder({GetValues(mems[i], objective) : i \in 1..Len(mems)})

\* GetValueIndex(values, now): lower_bound over the sorted values, the
\* first index (from 0) whose value is not below now.
GetValueIndex(values, now) ==
  CHOOSE idx \in 0..Len(values) :
    /\ \A j \in 1..idx : LexLess(values[j], now)
    /\ idx < Len(values) => ~LexLess(values[idx + 1], now)

\* GetValueFrac(values, now): `(double)idx / values.size()`
GetValueFrac(values, now) == Frac(GetValueIndex(values, now), Len(values))

\* The loop of GetNormalizedValue over the objectives in objs.
RECURSIVE NormalizedSum(_, _, _)
NormalizedSum(info, objs, mem) ==
  IF objs = {} THEN Frac(0, 1)
  ELSE LET obj == CHOOSE x \in objs : TRUE
       IN FracAdd(NormalizedSum(info, objs \ {obj}, mem),
                  GetValueFrac(info[obj], GetValues(mem, obj)))

\* WeightedObjectives::GetNormalizedValue(mem): the sum, then
\* `sum /= (double)weighted.size()`.
GetNormalizedValue(info, mem) ==
  FracDiv(NormalizedSum(info, DOMAIN info, mem), Cardinality(DOMAIN info))

\* WeightedObjectives::Observe(memory) between selector rounds.  Fewer
\* than MAX_OBSERVATIONS are made, so rand() is not called.
NormObserve ==
  /\ gpc \in {"ready", "valued"}
  /\ gobserved < MaxNormObserves
  /\ \E memory \in MemorySamples :
       ginfo' = [obj \in DOMAIN ginfo |->
                   ObserveOne(ginfo[obj], obj, memory, 0)]
  /\ gobserved' = gobserved + 1
  /\ UNCHANGED <<gpc, gmem, gvalue, oldVars, exceptNormVars>>

\* `objectives->GetNormalizedValue(new_memory)` in InnerLoop and
\* TakeBestAmong.
GetNormalizedValueCall ==
  /\ gpc \in {"ready", "valued"}
  /\ \E mem \in MemorySamples :
       /\ gmem' = mem
       /\ gvalue' = GetNormalizedValue(ginfo, mem)
  /\ gpc' = "valued"
  /\ UNCHANGED <<ginfo, gobserved, oldVars, exceptNormVars>>

\* The objectives as loaded, none of them observed yet.
InitNorm ==
  /\ PlayerIdle /\ OldIdle /\ ExceptNormIdle
  /\ gpc = "ready"
  /\ \E objs \in SUBSET ObjectiveSamples : ginfo = [obj \in objs |-> <<>>]
  /\ gobserved = 0
  /\ gmem = <<>> /\ gvalue = <<>>
NextNorm == NormObserve \/ GetNormalizedValueCall
SpecNorm == InitNorm /\ [][NextNorm]_vars

\* The body of WeightByExamples's loop for one objective: the weight it
\* leaves.
WeightOne(mems, obj) ==
  LET values == GetUniqueValues(mems, obj)
      score_end ==
        GetValueFrac(values, GetValues(mems[Len(mems)], obj))
      score_begin == GetValueFrac(values, GetValues(mems[1], obj))
      score == FracSub(score_end, score_begin)
  IN IF score.num <= 0 THEN Frac(0, 1) ELSE score

\* WeightedObjectives::WeightByExamples(memories);
\* `CHECK(memories.size() > 0)` is inside the loop over the objectives.
WeightByExamples ==
  /\ wpc = "start"
  /\ IF Len(wmemories) = 0 /\ DOMAIN wweighted # {}
     THEN /\ wpc' = "aborted"
          /\ UNCHANGED wweighted
     ELSE /\ wweighted' = [obj \in DOMAIN wweighted |->
                             WeightOne(wmemories, obj)]
          /\ wpc' = "weighed"
  /\ UNCHANGED <<wmemories, oldVars, exceptWeighVars>>

\* WeightedObjectives(objs) gives every objective the weight 1.0.
InitWeigh ==
  /\ PlayerIdle /\ OldIdle /\ ExceptWeighIdle
  /\ wpc = "start"
  /\ \E objs \in SUBSET ObjectiveSamples :
       wweighted = [obj \in objs |-> Frac(1, 1)]
  /\ wmemories \in SeqsUpTo(MemorySamples, MaxTrajectory)
NextWeigh == WeightByExamples
SpecWeigh == InitWeigh /\ [][NextWeigh]_vars

----------------------------------------------------------------------------
(* WeightedObjectives (util.h): SaveToFile and LoadFromFile.  A line of    *)
(* the file is the weight as "%f" prints it, kept as its count of          *)
(* millionths, and the locations as decimal numbers.  Objectives have at   *)
(* least one location.                                                     *)

\* "%f" prints six digits after the point.
FDigits == 1000000

\* The weights an objective can hold when the set is saved: 1.0 from the
\* constructor, 0.0 or a difference of fracs from WeightByExamples.
FileWeights ==
  {Frac(0, 1), Frac(1, 1), Frac(1, 2), Frac(1, 3), Frac(2, 3), Frac(1, 3000)}

\* StringPrintf("%f", weight) for a weight that is not negative: the
\* nearest count of millionths, the even one of two equally near.
PrintfF(w) ==
  LET scaled == w.num * FDigits
      q == scaled \div w.den
      r == scaled % w.den
  IN IF 2 * r > w.den \/ (2 * r = w.den /\ q % 2 = 1) THEN q + 1 ELSE q

\* `ss >> d` on what "%f" printed.
ReadDouble(text) == Frac(text, FDigits)

\* ObjectiveToString(obj): "%d" of every location, a space between two.
ObjectiveToString(obj) == obj

\* The `while (!ss.eof()) { ss >> i; locs.push_back(i); }` of
\* LoadFromFile on what ObjectiveToString wrote: the stream is at its end
\* after the last number.
ReadLocs(text) == text

\* The lines WeightedObjectives::SaveToFile(filename) writes: one for
\* every objective with `weight > 0`.
SaveLines(w) ==
  { [weight |-> PrintfF(w[obj]), locs |-> ObjectiveToString(obj)] :
    obj \in {o \in DOMAIN w : w[o].num > 0} }

\* The weighted of WeightedObjectives::LoadFromFile(filename).
LoadLines(lines) ==
  [obj \in {ReadLocs(l.locs) : l \in lines} |->
     ReadDouble((CHOOSE l \in lines : ReadLocs(l.locs) = obj).weight)]

\* weighted.SaveToFile(filename)
SaveToFile ==
  /\ fpc = "start"
  /\ fout' = SaveLines(fweighted)
  /\ fpc' = "saved"
  /\ UNCHANGED <<fweighted, floaded, oldVars, exceptFileVars>>

\* WeightedObjectives::LoadFromFile(filename) on the file just saved.
LoadFromFile ==
  /\ fpc = "saved"
  /\ floaded' = LoadLines(fout)
  /\ fpc' = "loaded"
  /\ UNCHANGED <<fweighted, fout, oldVars, exceptFileVars>>

InitFile ==
  /\ PlayerIdle /\ OldIdle /\ ExceptFileIdle
  /\ fpc = "start"
  /\ \E objs \in SUBSET ObjectiveSamples : fweighted \in [objs -> FileWeights]
  /\ fout = {} /\ floaded = <<>>
NextFile == SaveToFile \/ LoadFromFile
SpecFile == InitFile /\ [][NextFile]_vars

----------------------------------------------------------------------------
(* PlayFun::MakeNexts and Motifs::RandomWeightedMotifNotIn.  The weights   *)
(* and the sample are doubles: a double is kept as its binary numeral      *)
(* (least significant bit first) times a power of two, and every           *)
(* operation rounds its exact result to 53 significant bits, to nearest    *)
(* and to even on a tie, as the hardware does.  Weights are far from the   *)
(* subnormal and the overflow range.                                       *)

\* The most motifs in the library.
MaxLibrary == 3

Zeros(n) == [i \in 1..n |-> 0]

\* Bit i of a numeral, 0 beyond its length.
BitAt(a, i) == IF i >= 1 /\ i <= Len(a) THEN a[i] ELSE 0

\* The carry into bit i of a + b: some lower bit makes one and every bit
\* between passes it on.
CarryInto(a, b, i) ==
  \E j \in 1..(i - 1) :
    /\ BitAt(a, j) + BitAt(b, j) = 2
    /\ \A k \in (j + 1)..(i - 1) : BitAt(a, k) + BitAt(b, k) >= 1

BitsAdd(a, b) ==
  [i \in 1..(Max(Len(a), Len(b)) + 1) |->
     (BitAt(a, i) + BitAt(b, i) + IF CarryInto(a, b, i) THEN 1 ELSE 0) % 2]

\* The borrow from bit i of a - b.
BorrowFrom(a, b, i) ==
  \E j \in 1..(i - 1) :
    /\ BitAt(a, j) < BitAt(b, j)
    /\ \A k \in (j + 1)..(i - 1) : BitAt(a, k) <= BitAt(b, k)

\* a - b for a >= b.
BitsSub(a, b) ==
  [i \in 1..Len(a) |->
     (BitAt(a, i) - BitAt(b, i) - IF BorrowFrom(a, b, i) THEN 1 ELSE 0) % 2]

\* Long multiplication: the sum of b shifted to every one of a between
\* bits lo and hi.
RECURSIVE BitsMulBetween(_, _, _, _)
BitsMulBetween(a, b, lo, hi) ==
  IF lo > hi THEN <<>>
  ELSE IF lo = hi THEN (IF a[lo] = 1 THEN Zeros(lo - 1) \o b ELSE <<>>)
  ELSE LET mid == (lo + hi) \div 2
       IN BitsAdd(BitsMulBetween(a, b, lo, mid),
                  BitsMulBetween(a, b, mid + 1, hi))

BitsMul(a, b) == BitsMulBetween(a, b, 1, Len(a))

BitsLessEq(a, b) ==
  LET differ == { i \in 1..Max(Len(a), Len(b)) : BitAt(a, i) # BitAt(b, i) }
  IN differ = {}
     \/ BitAt(b, CHOOSE i \in differ : \A j \in differ : j <= i) = 1

\* The number bits * 2^exp without leading or trailing zero bits.
Dyadic(bits, exp) ==
  LET ones == { i \in 1..Len(bits) : bits[i] = 1 }
  IN IF ones = {} THEN [bits |-> <<>>, exp |-> 0]
     ELSE LET lo == CHOOSE i \in ones : \A j \in ones : i <= j
              hi == CHOOSE i \in ones : \A j \in ones : j <= i
          IN [bits |-> SubSeq(bits, lo, hi), exp |-> exp + lo - 1]

\* The numeral of x at the exponent e <= x.exp.
AtExp(x, e) == Zeros(x.exp - e) \o x.bits

\* Round to nearest, ties to even, keeping `keep` significant bits.
RoundTo(x, keep) ==
  LET n == Len(x.bits)
      k == n - keep
  IN IF k <= 0 THEN x
     ELSE LET kept == SubSeq(x.bits, k + 1, n)
              sticky == \E i \in 1..(k - 1) : x.bits[i] = 1
              up == x.bits[k] = 1 /\ (sticky \/ kept[1] = 1)
          IN Dyadic(IF up THEN BitsAdd(kept, <<1>>) ELSE kept, x.exp + k)

\* The double nearest to the exact result x: 53 significant bits.
RoundToDouble(x) == RoundTo(x, 53)

\* `a + b`, `a - b` (for a >= b), `a * b` and `a <= b` on doubles.
DoubleAdd(a, b) ==
  LET e == Min(a.exp, b.exp)
  IN RoundToDouble(Dyadic(BitsAdd(AtExp(a, e), AtExp(b, e)), e))
DoubleSub(a, b) ==
  LET e == Min(a.exp, b.exp)
  IN RoundToDouble(Dyadic(BitsSub(AtExp(a, e), AtExp(b, e)), e))
DoubleMul(a, b) ==
  RoundToDouble(Dyadic(IF Len(a.bits) <= Len(b.bits)
                       THEN BitsMul(a.bits, b.bits)
                       ELSE BitsMul(b.bits, a.bits), a.exp + b.exp))
DoubleLessEq(a, b) ==
  LET e == Min(a.exp, b.exp)
  IN BitsLessEq(AtExp(a, e), AtExp(b, e))

DoubleZero == Dyadic(<<>>, 0)
DoubleOne == Dyadic(<<1>>, 0)

\* The double nearest to 0.8: 0x1.999999999999ap-1, which is
\* 0xCCCCCCCCCCCCD * 2^-52.
FourFifths ==
  Dyadic(<<1, 0, 1, 1>>
         \o [i \in 1..48 |-> IF i % 4 \in {1, 2} THEN 0 ELSE 1], -52)

\* `#define MOTIF_ALPHA 0.8`
MOTIF_ALPHA == FourFifths

\* RandomDouble(rc), `(double)RandomInt32(rc) / (double)(uint32)0xFFFFFFFF`,
\* at the two ends of its range: RandomInt32 of 0 and of 0xFFFFFFFF.
RandomDouble == {DoubleZero, DoubleOne}

\* The weights of the library: an initial weight of 1.0 after no, one and
\* three `*weight * MOTIF_ALPHA` of TakeBestAmong.
LibraryWeights ==
  {DoubleOne, DoubleMul(DoubleOne, MOTIF_ALPHA),
   DoubleMul(DoubleMul(DoubleMul(DoubleOne, MOTIF_ALPHA), MOTIF_ALPHA),
             MOTIF_ALPHA)}

\* The libraries: motif k is ten inputs k.
Libraries ==
  UNION { [{Repeat(k, INPUTS_PER_NEXT) : k \in 1..n} -> LibraryWeights] :
          n \in 0..MaxLibrary }

\* NFUTURES futures with `distinct` different heads, from the input
\* first + 1 on; the last one shorter than a next when `short`.
FuturesOf(distinct, first, short) ==
  [i \in 1..NFUTURES |->
     IF short /\ i = NFUTURES
     THEN Repeat(first + 1 + (i % distinct), INPUTS_PER_NEXT \div 2)
     ELSE Repeat(first + 1 + (i % distinct), INPUTS_PER_NEXT) \o <<0, i>>]

\* The keys of a map in the order its iterator visits them.
RECURSIVE KeysInOrder(_)
KeysInOrder(keys) ==
  IF keys = {} THEN <<>>
  ELSE LET least == CHOOSE k \in keys :
                      \A other \in keys : other = k \/ LexLess(k, other)
       IN <<least>> \o KeysInOrder(keys \ {least})

\* NULL of `const vector<uint8> *`.
NoMotif == <<>>

\* The first loop of RandomWeightedMotifNotIn, from key k on.
RECURSIVE TotalWeightFrom(_, _, _, _, _)
TotalWeightFrom(lib, keys, c, k, totalweight) ==
  IF k > Len(keys) THEN totalweight
  ELSE TotalWeightFrom(lib, keys, c, k + 1,
                       IF keys[k] \notin c
                       THEN DoubleAdd(totalweight, lib[keys[k]])
                       ELSE totalweight)

\* The second loop of RandomWeightedMotifNotIn, from key k on.
RECURSIVE SampleFrom(_, _, _, _, _)
SampleFrom(lib, keys, c, k, sample) ==
  IF k > Len(keys) THEN NoMotif
  ELSE IF keys[k] \in c THEN SampleFrom(lib, keys, c, k + 1, sample)
  ELSE IF DoubleLessEq(sample, lib[keys[k]]) THEN keys[k]
  ELSE SampleFrom(lib, keys, c, k + 1, DoubleSub(sample, lib[keys[k]]))

\* Motifs::RandomWeightedMotifNotIn(c) when RandomDouble(&rc) returns r.
RandomWeightedMotifNotIn(lib, c, r) ==
  LET keys == KeysInOrder(DOMAIN lib)
      totalweight == TotalWeightFrom(lib, keys, c, 1, DoubleZero)
      sample == DoubleMul(r, totalweight)
  IN SampleFrom(lib, keys, c, 1, sample)

\* StringPrintf("ftr-%d", i)
FtrName(i) == <<"ftr-", i>>

\* The first loop of MakeNexts from future i on (0-based, as in the
\* source).
RECURSIVE TodoFutures(_, _, _)
TodoFutures(futs, i, todo) ==
  IF i >= Len(futs) THEN todo
  ELSE LET inputs == futs[i + 1]
           nf == SubSeq(inputs, 1, INPUTS_PER_NEXT)
       IN IF Len(inputs) >= INPUTS_PER_NEXT /\ nf \notin DOMAIN todo
          THEN TodoFutures(futs, i + 1,
                           [k \in DOMAIN todo \cup {nf} |->
                              IF k = nf THEN FtrName(i) ELSE todo[k]])
          ELSE TodoFutures(futs, i + 1, todo)

\* MakeNexts up to the backfill.
MakeNextsFutures ==
  /\ npc = "futures"
  /\ ntodo' = TodoFutures(nfutures, 0, <<>>)
  /\ npc' = "backfill"
  /\ UNCHANGED <<nfutures, nlib, cnexts, cwhy, oldVars, exceptNextsVars>>

\* One test of `while (todo.size() < NFUTURES)` and the body it guards.
MakeNextsBackfill ==
  /\ npc = "backfill"
  /\ IF Cardinality(DOMAIN ntodo) < NFUTURES
     THEN \E r \in RandomDouble :
            \E motif \in {RandomWeightedMotifNotIn(nlib, DOMAIN ntodo, r)} :
              IF motif = NoMotif
              THEN \* "No more motifs"
                   /\ ntodo' = ntodo
                   /\ npc' = "populate"
              ELSE /\ ntodo' = [k \in DOMAIN ntodo \cup {motif} |->
                                  IF k \in DOMAIN ntodo THEN ntodo[k]
                                  ELSE <<"backfill">>]
                   /\ npc' = "backfill"
     ELSE /\ ntodo' = ntodo
          /\ npc' = "populate"
  /\ UNCHANGED <<nfutures, nlib, cnexts, cwhy, oldVars, exceptNextsVars>>

\* "Now populate nexts and explanations."
MakeNextsPopulate ==
  /\ npc = "populate"
  /\ \E keys \in {KeysInOrder(DOMAIN ntodo)} :
       /\ cnexts' = keys
       /\ cwhy' = [k \in 1..Len(keys) |-> ntodo[keys[k]]]
  /\ npc' = "done"
  /\ UNCHANGED <<nfutures, nlib, ntodo, oldVars, exceptNextsVars>>

InitNexts ==
  /\ PlayerIdle /\ OldIdle /\ ExceptNextsIdle
  /\ npc = "futures"
  /\ \E distinct \in {1, NFUTURES - 2, NFUTURES}, first \in {0, 100},
        short \in BOOLEAN :
       nfutures = FuturesOf(distinct, first, short)
  /\ nlib \in Libraries
  /\ ntodo = <<>> /\ cnexts = <<>> /\ cwhy = <<>>
NextNexts == MakeNextsFutures \/ MakeNextsBackfill \/ MakeNextsPopulate
SpecNexts == InitNexts /\ [][NextNexts]_vars

----------------------------------------------------------------------------
(* ScoreIntegral and IsImprovement over the memories an input path runs    *)
(* through, with the sums kept as doubles: a sign and a magnitude, every   *)
(* operation rounded as in DoubleAdd.  The emulator is deterministic, so   *)
(* a path of inputs from a start state is a path of memories.              *)

\* The longest path of inputs.
MaxPath == 2

Signed(neg, mag) == [neg |-> neg /\ mag.bits # <<>>, mag |-> mag]

SignedZero == Signed(FALSE, DoubleZero)

SignedNeg(a) == Signed(~a.neg, a.mag)

SignedAdd(a, b) ==
  IF a.neg = b.neg THEN Signed(a.neg, DoubleAdd(a.mag, b.mag))
  ELSE IF DoubleLessEq(b.mag, a.mag)
  THEN Signed(a.neg, DoubleSub(a.mag, b.mag))
  ELSE Signed(b.neg, DoubleSub(b.mag, a.mag))

SignedSub(a, b) == SignedAdd(a, SignedNeg(b))

SignedMul(a, b) == Signed(a.neg # b.neg, DoubleMul(a.mag, b.mag))

\* `x <= 0`
SignedNotPositive(x) == x.neg \/ x.mag.bits = <<>>

\* The double Order returns: its val is a whole number of halves, quarters,
\* ... and every step of its loop is exact.
DoubleOfOrder(val) ==
  LET n == IF val.num < 0 THEN -val.num ELSE val.num
      k == CHOOSE j \in 0..15 : 2^j = val.den
  IN Signed(val.num < 0,
            Dyadic([i \in 1..15 |-> (n \div 2^(i - 1)) % 2], -k))

\* The loop of WeightedObjectives::Evaluate from the k-th objective on:
\* `score += weight * Order(mem1, mem2, objective);`
RECURSIVE EvaluateDoublesFrom(_, _, _, _, _, _)
EvaluateDoublesFrom(w, keys, m1, m2, k, score) ==
  IF k > Len(keys) THEN score
  ELSE EvaluateDoublesFrom(w, keys, m1, m2, k + 1,
         SignedAdd(score,
                   SignedMul(w[keys[k]],
                             DoubleOfOrder(Order(m1, m2, keys[k])))))

\* WeightedObjectives::Evaluate(mem1, mem2) in doubles.
EvaluateDoubles(w, m1, m2) ==
  EvaluateDoublesFrom(w, KeysInOrder(DOMAIN w), m1, m2, 1, SignedZero)

\* The loop of ScoreIntegral over the memories the inputs lead through:
\* `sum += objectives->Evaluate(previous_memory, new_memory);
\* previous_memory.swap(new_memory);`
RECURSIVE ScoreIntegralOver(_, _, _, _, _)
ScoreIntegralOver(w, previous_memory, path, k, sum) ==
  IF k > Len(path) THEN sum
  ELSE ScoreIntegralOver(w, path[k], path, k + 1,
                         SignedAdd(sum,
                                   EvaluateDoubles(w, previous_memory,
                                                   path[k])))

\* The memories of the model: one byte.
PathMemories == [1..1 -> {0, 1, 3}]

\* The paths of memories of up to MaxPath inputs.
PathsOfMemories == UNION { [1..n -> PathMemories] : n \in 1..MaxPath }

\* The weights: the constructor's 1.0, and 0.8 as LoadFromFile reads it
\* from the line `0.800000 0`.
PathWeights ==
  { [o \in {<<0>>} |-> Signed(FALSE, DoubleOne)],
    [o \in {<<0>>} |-> Signed(FALSE, FourFifths)],
    [o \in {<<0>>, <<0, 0>>} |-> Signed(FALSE, FourFifths)] }

\* TryImprove: `current_integral = ScoreIntegral(&start->save, improveme,
\* NULL)`, the end_integral of every request.
PathEndIntegral ==
  /\ qpc = "start"
  /\ qend_integral' = ScoreIntegralOver(qweighted, qstart, qendpath, 1,
                                        SignedZero)
  /\ qpc' = "requested"
  /\ UNCHANGED <<qweighted, qstart, qendpath, qnewpath, qimproved, qscore,
                 oldVars, exceptPathVars>>

\* IsImprovement(frac, start_state, start_memory, inputs, end_memory,
\* e_minus_s, &score) for the candidate whose inputs lead through
\* qnewpath.
PathIsImprovement ==
  /\ qpc = "requested"
  /\ LET end_memory == qendpath[Len(qendpath)]
         new_memory == qnewpath[Len(qnewpath)]
         n_minus_s == ScoreIntegralOver(qweighted, qstart, qnewpath, 1,
                                        SignedZero)
         n_minus_e == EvaluateDoubles(qweighted, end_memory, new_memory)
     IN IF SignedNotPositive(n_minus_e)
        THEN qimproved' = FALSE /\ qscore' = qscore
        ELSE /\ qimproved' = TRUE
             /\ qscore' = SignedAdd(SignedSub(n_minus_s, qend_integral),
                                    n_minus_e)
  /\ qpc' = "judged"
  /\ UNCHANGED <<qweighted, qstart, qendpath, qnewpath, qend_integral,
                 oldVars, exceptPathVars>>

InitPath ==
  /\ PlayerIdle /\ OldIdle /\ ExceptPathIdle
  /\ qpc = "start"
  /\ qweighted \in PathWeights
  /\ qstart \in PathMemories
  /\ qendpath \in PathsOfMemories
  /\ qnewpath \in PathsOfMemories
  /\ qend_integral = SignedZero /\ qimproved = FALSE /\ qscore = SignedZero
NextPath == PathEndIntegral \/ PathIsImprovement
SpecPath == InitPath /\ [][NextPath]_vars

----------------------------------------------------------------------------
(* Properties of the movie, the subtitles and the checkpoints.             *)

InWarmup == pc \in {"warmup_zero", "warmup_ff"}

\* C1: in every reachable state of the player the subtitles (annotations)
\* are exactly as many as the inputs of the movie.
C1_SubtitlesMatchMovie == Len(subtitles) = Len(movie)

\* C1's case: a backtrack has rewound the movie and committed a CHOP
\* replacement, shorter than the segment it replaces.
C1_Witness ==
  /\ pc = "round"
  /\ movie # <<>>
  /\ subtitles[Len(subtitles)] = "CHOP"

\* C2: after construction no step rewinds to or below the watermark: the
\* movie shrinks only to a length strictly above the watermark, its first
\* `watermark` inputs never change, and it is never shorter than the
\* watermark.
C2_NeverBelowWatermark ==
  [][~InWarmup =>
       /\ watermark' = watermark
       /\ Len(movie') >= watermark
       /\ SubSeq(movie', 1, watermark) = SubSeq(movie, 1, watermark)
       /\ (Len(movie') < Len(movie) => Len(movie') > watermark)]_vars

\* C2's case: MaybeBacktrack has just called Rewind(start.movenum).
C2_Witness ==
  /\ pc = "bt_take"
  /\ Len(movie) = bt_start.movenum
  /\ watermark > 0

\* C3: every checkpoint's movenum is at most the length of the movie and
\* the checkpoints are strictly increasing in movenum; Rewind pops exactly
\* the checkpoints above its target, so the checkpoint rewound to is the
\* last one left.
C3_CheckpointsOrdered ==
  /\ \A i \in 1..Len(checkpoints) : checkpoints[i].movenum <= Len(movie)
  /\ \A i, j \in 1..Len(checkpoints) :
       i < j => checkpoints[i].movenum < checkpoints[j].movenum
  /\ pc = "bt_take" =>
       /\ checkpoints # <<>>
       /\ checkpoints[Len(checkpoints)] = bt_start

\* C3's case: a backtrack has rewound to a checkpoint and committed a CHOP
\* replacement whose last input made a checkpoint, and a normal round has
\* committed after it.
C3_Witness ==
  /\ pc = "maybe_backtrack"
  /\ \E i \in 1..Len(subtitles) : subtitles[i] = "CHOP"
  /\ \E i \in 1..Len(checkpoints) :
       /\ checkpoints[i].movenum < Len(movie)
       /\ subtitles[checkpoints[i].movenum + 1] \notin {"CHOP", "warmup"}
       /\ subtitles[checkpoints[i].movenum] = "CHOP"

\* C4: once the constructor has finished, every checkpoint has movenum
\* strictly greater than the watermark.
C4_CheckpointsAboveWatermark ==
  ~InWarmup => \A i \in 1..Len(checkpoints) :
                 checkpoints[i].movenum > watermark

\* C5: warmup commits are neither observed nor checkpointed: right after
\* construction no observation has been recorded and there is no checkpoint.
C5_WarmupUnobserved ==
  pc = "constructed" => memories = 0 /\ checkpoints = <<>>

\* The number of leading zero inputs of a recorded movie.
ZeroPrefixLen(sol) ==
  IF \A i \in 1..Len(sol) : sol[i] = 0 THEN Len(sol)
  ELSE (CHOOSE i \in 1..Len(sol) :
          sol[i] # 0 /\ \A j \in 1..(i - 1) : sol[j] = 0) - 1

\* C6 as stated: the watermark is the number of inputs committed, and for
\* the movie [0,0,0,0x08,0x04] with fastforward=3 it is 5, as is |movie|.
C6_WarmupFive ==
  pc = "constructed" =>
    /\ watermark = Len(movie)
    /\ (solution = <<0, 0, 0, 8, 4>> /\ fastforward = 3) =>
         (watermark = 5 /\ Len(movie) = 5)

\* C6, amended: the constructor commits the leading zero inputs of the
\* recorded movie and then goes on only until `fastforward` inputs in all
\* are committed, never past the end of the recording; the watermark is the
\* number of inputs committed.
C6_Warmup ==
  pc = "constructed" =>
    /\ watermark = Len(movie)
    /\ movie = SubSeq(solution, 1, watermark)
    /\ watermark = Min(Len(solution),
                       Max(ZeroPrefixLen(solution), fastforward))
    /\ \A i \in 1..Len(subtitles) : subtitles[i] = "warmup"

\* C6's case: the movie [0,0,0,0x08,0x04] with fastforward=3 gives
\* watermark = |movie| = 3.
C6_Witness ==
  /\ pc = "constructed"
  /\ solution = <<0, 0, 0, 8, 4>>
  /\ fastforward = 3
  /\ watermark = 3
  /\ Len(movie) = 3

----------------------------------------------------------------------------
(* Properties of the futures pool and of the selection.                    *)

\* C7: the pool holds exactly NFUTURES futures at entry to and at exit
\* from every call of TakeBestAmong, with chopfutures true or false; in
\* between, the drop loop leaves NFUTURES - 12 and the mutants make it
\* NFUTURES - 5.
C7_PoolSize ==
  /\ ppc = "round" => Len(futures) = NFUTURES
  /\ ppc = "dropped" => Len(futures) = NFUTURES - TOTAL_TO_DROP
  /\ ppc = "mutated" => Len(futures) = NFUTURES - DROPFUTURES

\* C7's case: the exit of a round run with chopfutures = false, after an
\* earlier round.
C7_Witness ==
  /\ ppc = "round"
  /\ prounds >= 2
  /\ ~chopfutures
  /\ Len(futures) = NFUTURES

\* C8 as stated: after every PopulateFutures at least NWEIGHTEDFUTURES
\* futures of the pool are weighted.
C8_AtLeastWeighted ==
  ppc = "round" => CountWeighted(futures) >= NWEIGHTEDFUTURES

\* C8, amended: PopulateFutures changes no flag of a future already in
\* the pool; it flags the futures it adds as weighted, first ones first,
\* until NWEIGHTEDFUTURES are weighted or nothing is left to add.
C8_WeightsOnlyAdded ==
  [][(ppc \in {"start", "mutated"}) =>
       ((\A i \in 1..Len(futures) :
           futures'[i].weighted = futures[i].weighted)
        /\ (CountWeighted(futures') =
              CountWeighted(futures) +
                Min(Max(NWEIGHTEDFUTURES - CountWeighted(futures), 0),
                    Len(futures') - Len(futures))))]_vars

\* C8's case: a round has dropped weighted futures and added unweighted
\* mutants, and the 5 futures PopulateFutures added do not make up for
\* them.
C8_Witness ==
  /\ ppc = "round"
  /\ prounds >= 1
  /\ Len(futures) = NFUTURES
  /\ CountWeighted(futures) < NWEIGHTEDFUTURES

\* C9: the next ParallelStep chooses has the maximum score (immediate +
\* future) among all the nexts, also when every score is zero or
\* negative.
C9_ChosenIsMax ==
  spc = "done" =>
    \A i \in 1..Len(scores) :
      Score(scores[i]) <= Score(scores[best_next_idx + 1])

\* C10: no future that survives the drop loop has a total lower than the
\* total of a future the loop removed.
C10_DroppedAreWorst ==
  ppc = "dropped" =>
    \A i \in 1..Len(futures), j \in 1..Len(dropped) :
      futuretotals[i] >= dropped[j]

\* C11: after PopulateFutures no future of the pool holds more inputs than
\* its desired_length.
C11_InputsWithinDesired ==
  ppc = "round" =>
    \A i \in 1..Len(futures) : futures[i].len <= futures[i].desired_length

----------------------------------------------------------------------------
(* Properties of the motif weights.                                        *)

\* The weights and their total on one scale.
NowScaled(i) == Scaled(mweights[i], LoUps(mweights, mweights[1]),
                       HiUps(mweights, mweights[1]))
NowTotal == SumScaled(mweights, LoUps(mweights, mweights[1]),
                      HiUps(mweights, mweights[1]))

\* C12: after a reweighting, every motif either has not had its weight
\* increased by it or has at most MOTIF_MAX_FRAC (a tenth) of the total
\* weight.
C12_IncreaseCapped ==
  \A i \in 1..Len(mweights) :
    mweights[i].ups > lastw[i].ups =>
      NowScaled(i) * MOTIF_MAX_FRAC_INV <= NowTotal

\* C12's case: the committed motif has had its weight increased.
C12_Witness ==
  /\ lastnext # 0
  /\ lastup
  /\ mweights[lastnext].ups > lastw[lastnext].ups

\* The decrease of the last committed motif is at or below MOTIF_MIN_FRAC
\* of the total weight before it.
DecreaseAtFloor ==
  /\ lastnext # 0
  /\ ~lastup
  /\ LET d == Info(lastw[lastnext].base, lastw[lastnext].ups - 1)
         lo == LoUps(lastw, d)
         hi == HiUps(lastw, d)
     IN Scaled(d, lo, hi) <= SumScaled(lastw, lo, hi) \div MOTIF_MIN_FRAC_INV

\* C13: when the committed next is a motif whose weight times alpha is at
\* or below MOTIF_MIN_FRAC of the total weight and the commit did not
\* raise the normalized value, its weight (as every weight) is unchanged.
C13_DecreaseSuppressed == DecreaseAtFloor => mweights = lastw

\* C13's case: a losing commit of the motif that holds 1e-6 of the total
\* weight.
C13_Witness ==
  /\ DecreaseAtFloor
  /\ mrounds = 1
  /\ lastw = <<Info(1, 0), Info(999999, 0)>>
  /\ lastnext = 1

----------------------------------------------------------------------------
(* Properties of Dualize and ReverseRange.                                 *)

\* C14: Dualize run twice over the same span gives the vector back, for
\* every vector and every span inside it.
C14_DualizeInvolution ==
  (vop = "Dualize" /\ vpc = "twice") => vec = vec0

\* C14's case: a span that starts after the first input, and a first
\* call that has changed the vector.
C14_Witness ==
  /\ vop = "Dualize"
  /\ vpc = "twice"
  /\ vstart > 0
  /\ vlen > 1
  /\ vmid # vec0

\* C15: ReverseRange run twice over the same span gives the vector back,
\* for every vector and every span inside it, also when start > 0.
C15_ReverseInvolution ==
  (vop = "ReverseRange" /\ vpc = "twice") => vec = vec0

----------------------------------------------------------------------------
(* Properties of the objectives.                                           *)

\* The history obs is in ascending order.
Ascending(obs) ==
  \A i \in 1..(Len(obs) - 1) : ~LexLess(obs[i + 1], obs[i])

\* C16: after every Observe each objective's observations are sorted
\* ascending and at most 64; below 64 an Observe adds one, and at 64 it
\* overwrites one and the size stays 64.
C16_HistorySortedCapped ==
  [][\A o \in 1..Len(observations) :
       (/\ Ascending(observations'[o])
        /\ Len(observations'[o]) <= MAX_OBSERVATIONS
        /\ Len(observations'[o]) =
             IF Len(observations[o]) < MAX_OBSERVATIONS
             THEN Len(observations[o]) + 1 ELSE MAX_OBSERVATIONS)]_vars

\* C16's case: Observe has been called more than 64 times, and the
\* histories of 64 hold different projections.
C16_Witness ==
  /\ nobserved > MAX_OBSERVATIONS
  /\ \A o \in 1..Len(observations) :
       /\ Len(observations[o]) = MAX_OBSERVATIONS
       /\ observations[o][1] # observations[o][MAX_OBSERVATIONS]

\* C17: for every memory a and every objective set, WeightedLess(a, a)
\* is 0 (its CHECK passes) and Evaluate(a, a) is 0.
C17_EqualMemoriesZero ==
  mem1 = mem2 =>
    /\ opc # "aborted"
    /\ opc \in {"less", "evaluated"} => (wless12 = 0 /\ wless21 = 0)
    /\ opc = "evaluated" => eval12 = 0

\* C17's case: both have been called on one memory with an objective set
\* that holds a positive weight.
C17_Witness ==
  /\ opc = "evaluated"
  /\ mem1 = mem2
  /\ mem1 = <<3, 255>>
  /\ \E obj \in DOMAIN weighted : weighted[obj] > 0

\* The sum of the weights of the active objectives (weight > 0).
ActiveWeight ==
  SumOver([obj \in DOMAIN weighted |->
             IF weighted[obj] > 0 THEN weighted[obj] ELSE 0],
          DOMAIN weighted)

\* C18: WeightedLess's CHECK(score >= 0) never fires, WeightedLess(a, b)
\* is never negative, and WeightedLess(a, b) + WeightedLess(b, a) is at
\* most the sum of the weights of the active objectives.
C18_WeightedLessBounds ==
  /\ opc # "aborted"
  /\ opc \in {"less", "evaluated"} =>
       /\ wless12 >= 0
       /\ wless21 >= 0
       /\ wless12 + wless21 <= ActiveWeight

----------------------------------------------------------------------------
(* Properties of the backtrack attempts.                                   *)

\* MaybeBacktrack's timer has run out in this step.
BacktrackTime == pc = "maybe_backtrack" /\ rounds_until_backtrack - 1 <= 0

\* Some checkpoint is at least MIN_BACKTRACK_DISTANCE inputs back and
\* strictly after the watermark.
SomeEligible ==
  \E i \in 1..Len(checkpoints) :
    /\ Len(movie) - checkpoints[i].movenum >= MIN_BACKTRACK_DISTANCE
    /\ checkpoints[i].movenum > watermark

\* C19: a backtrack attempt that finds no eligible checkpoint leaves the
\* movie, the annotations, the checkpoints and the futures unchanged and
\* sets the timer to 1.
C19_NoCheckpointDefers ==
  [][(BacktrackTime /\ ~SomeEligible) =>
       (/\ movie' = movie
        /\ subtitles' = subtitles
        /\ checkpoints' = checkpoints
        /\ futures' = futures
        /\ rounds_until_backtrack' = 1)]_vars

\* C19's case: the first attempt, in round 18, has found its only
\* checkpoint too close and has returned; had the timer not run out it
\* would not be 1 at the start of round 19.
C19_Witness ==
  /\ pc = "round"
  /\ iters = TRY_BACKTRACK_EVERY \div INPUTS_PER_NEXT + 1
  /\ rounds_until_backtrack = 1
  /\ checkpoints # <<>>
  /\ ~SomeEligible

\* C20: an attempt with an eligible checkpoint that goes back to Master's
\* loop without a trial (the improvement pass returned no candidates)
\* leaves the movie, the annotations, the checkpoints and the futures
\* exactly as before, and the timer at its full window, 18.
C20_NoCandidatesAbandons ==
  [][(BacktrackTime /\ SomeEligible /\ pc' = "round") =>
       (/\ movie' = movie
        /\ subtitles' = subtitles
        /\ checkpoints' = checkpoints
        /\ futures' = futures
        /\ rounds_until_backtrack' = 18
        /\ rounds_until_backtrack'
             = TRY_BACKTRACK_EVERY \div INPUTS_PER_NEXT)]_vars

\* C20's case: an attempt has been abandoned: the timer is at its full
\* window at the start of a round although a checkpoint is eligible and
\* no replacement has ever been committed.
C20_Witness ==
  /\ pc = "round"
  /\ rounds_until_backtrack = TRY_BACKTRACK_EVERY \div INPUTS_PER_NEXT
  /\ iters > 1
  /\ SomeEligible
  /\ \A i \in 1..Len(subtitles) :
       subtitles[i] \notin {"original", "ABLATE", "CHOP", "SHUFFLE"}

----------------------------------------------------------------------------
(* Properties of the selector round.                                       *)

\* What a helper answers for candidate next i of the round.
AnswerFor(i) == HelperPlayFun([current_state |-> rstate, next |-> rnexts[i],
                               futures |-> [f \in 1..Len(rfutures) |->
                                              rfutures[f].inputs]])

\* The answers for all the candidates of the round.
Answers == [i \in 1..Len(rnexts) |-> AnswerFor(i)]

\* C21: within a round the result does not depend on the order in which
\* the responses arrive: every response received is that of the candidate
\* next at its position, and when the round is done the chosen index is
\* the first candidate with the highest score above 0 (0 when there is
\* none) and every future's total is the sum of its scores over the
\* candidates, whatever the order of completion was.
C21_OrderIndependent ==
  rpc \in {"waiting", "done"} =>
    \E ans \in {Answers} :
      \E sc \in {[i \in 1..Len(ans) |->
                    ans[i].immediate_score + ans[i].futures_score]} :
        /\ \A i \in 1..Len(work) : work[i].done => work[i].res = ans[i]
        /\ rpc = "done" =>
             /\ \A f \in 1..NFUTURES :
                  rtotals[f] = SumOver([i \in 1..Len(ans) |->
                                          ans[i].futurescores[f]],
                                       1..Len(ans))
             /\ IF \E i \in 1..Len(sc) : sc[i] > 0
                THEN /\ \A j \in 1..Len(sc) : sc[j] <= sc[rbest + 1]
                     /\ \A j \in 1..rbest : sc[j] < sc[rbest + 1]
                ELSE rbest = 0

\* C21's case: three candidates answered out of order, the last request
\* first, and a candidate other than the first chosen.
C21_Witness ==
  /\ rpc = "done"
  /\ completed = <<3, 1, 2>>
  /\ rbest > 0
  /\ \E f \in 1..NFUTURES : rtotals[f] # 0

\* C22: a round computed locally gives the same chosen next and the same
\* per-future totals as the same round computed by sending one request per
\* candidate next to a helper.
C22_LocalEqualsRemote ==
  rpc = "done" => (rbest = lbest /\ rtotals = ltotals)

\* C22's case: both builds have run a round of several candidates whose
\* choice is not the first and whose totals are not all zero.
C22_Witness ==
  /\ rpc = "done"
  /\ Len(rnexts) > 1
  /\ lbest > 0
  /\ \E f, g \in 1..NFUTURES : ltotals[f] # 0 /\ ltotals[g] # ltotals[f]

----------------------------------------------------------------------------
(* Properties of the fallback without helpers.                             *)

\* C23: when no helper is configured the master still runs and services
\* every request of every batch in-process, for both kinds of request:
\* the score-nexts requests of a selector round and the improve-segment
\* requests of a backtrack attempt.
C23_SerialFallback ==
  (mhelpers = 0 /\ mrole # "start") =>
    /\ mrole = "master"
    /\ mbatch.kind = "playfun" =>
         (mbatch.inprocess = mbatch.size /\ mbatch.remote = 0)
    /\ mbatch.kind = "tryimprove" =>
         (mbatch.inprocess = TryImproveRequests /\ mbatch.remote = 0)

\* C23, amended: built without MARIONET the master runs whatever helpers
\* are configured and services every score-nexts request of a selector
\* round in-process; a backtrack attempt makes and services no
\* improve-segment request.  Built with MARIONET and without helpers the
\* program runs as a helper.
C23_PlainBuildFallback ==
  /\ (mbuild = "plain" /\ mrole # "start") =>
       /\ mrole = "master"
       /\ mbatch.kind = "playfun" =>
            (mbatch.size > 0 /\ mbatch.inprocess = mbatch.size
             /\ mbatch.remote = 0)
       /\ mbatch.kind = "tryimprove" =>
            (mbatch.size = 0 /\ mbatch.inprocess = 0 /\ mbatch.remote = 0)
  /\ (mbuild = "MARIONET" /\ mhelpers = 0 /\ mrole # "start") =>
       mrole = "helper"

\* C23's case: a master without helpers has run a selector round and
\* then a backtrack attempt.
C23_Witness ==
  /\ mbuild = "plain"
  /\ mhelpers = 0
  /\ mrole = "master"
  /\ mbatches > 1
  /\ mbatch.kind = "tryimprove"

----------------------------------------------------------------------------
(* Properties of the helper.                                               *)

\* C24: the helper serves one connection at a time: on a connection it
\* reads at most one request and writes at most one response, and it has
\* hung up whenever it listens; a failed read, a failed write or a request
\* of unknown kind never stops the loop, and a request of a known kind
\* that was read has its whole response computed and kept by the time the
\* helper hangs up.
C24_OneConnectionAtATime ==
  /\ hpc \in {"listen", "read", "handle", "write", "hangup"}
  /\ reads <= 1
  /\ writes <= 1
  /\ writes <= reads
  /\ hpc = "listen" => ~connected
  /\ hpc \in {"read", "handle", "write", "hangup"} => connected
  /\ (hpc = "hangup" /\ writes = 1) => hres = HelperCompute(hreq)

\* C24's case: after a write has failed and a read has failed the helper
\* has accepted another connection and read a request from it.
C24_Witness ==
  /\ hpc = "handle"
  /\ hwrote = "failed"
  /\ connections >= 3
  /\ reads = 1
  /\ hreq.kind = "unknown"

\* C25: a request held in the cache is answered with the stored response
\* and nothing is computed; a response computed for this connection is in
\* the cache when the write is attempted; and the request whose response
\* could not be written is held when it comes again.
C25_CacheBeforeWrite ==
  [][(/\ (hpc = "handle" /\ Held(cache, hreq)) =>
           (/\ computed' = computed
            /\ hres' = Stored(cache, hreq)
            /\ hpc' = "write")
      /\ (hpc' = "write" /\ hfresh') =>
           (Held(cache', hreq') /\ Stored(cache', hreq') = hres')
      /\ (hpc' = "handle" /\ hreq' = hfailed') => Held(cache', hreq'))]_vars

\* C25's case: the write of a computed response has failed and the same
\* request, read again on the next connection, is about to be answered
\* from a cache that holds RequestCacheSize requests.
C25_Witness ==
  /\ hpc = "handle"
  /\ hreq = hfailed
  /\ hwrote = "failed"
  /\ Held(cache, hreq)
  /\ Len(cache) = RequestCacheSize

----------------------------------------------------------------------------
(* Properties of the helper's improve-segment work.                        *)

\* C26: an improve-segment response carries at most maxbest candidates,
\* its inputs and score arrays have the same length and are parallel (the
\* j-th score is the score found for the j-th inputs), the candidates it
\* carries are the maxbest highest-scoring of the improvements found (all
\* of them when there are no more than maxbest), iters_better is the
\* number of improvements found before the truncation, and iters_tried is
\* the iters of the request.
C26_ResponseHoldsTheBest ==
  ipc = "built" =>
    LET n == Len(found)
        k == Len(ires.inputs)
    IN /\ k <= ireq.maxbest
       /\ Len(ires.score) = k
       /\ k = Min(n, ireq.maxbest)
       /\ \E p \in [1..k -> 1..n] :
            /\ \A a, b \in 1..k : a # b => p[a] # p[b]
            /\ \A j \in 1..k :
                 found[p[j]] = Pair(ires.score[j], ires.inputs[j])
       /\ \A r \in 1..n :
            Cardinality({j \in 1..k : ires.score[j] >= found[r].first})
              = Min(k, Cardinality({q \in 1..n :
                                      found[q].first >= found[r].first}))
       /\ ires.iters_better = n
       /\ ires.iters_tried = ireq.iters

\* A response built after more than maxbest improvements were found, the
\* first of them scoring below a later one, and one of them scoring below
\* everything the response carries.
C26_Witness ==
  /\ ipc = "built"
  /\ Len(found) > ireq.maxbest
  /\ Len(ires.inputs) = ireq.maxbest
  /\ \E r \in 2..Len(found) : found[1].first < found[r].first
  /\ \E r \in 1..Len(found) :
       \A j \in 1..Len(ires.score) : found[r].first < ires.score[j]

\* C27: IsImprovement returns false and leaves *score as it was exactly
\* when Evaluate(end_memory, new_memory) is at most 0, new_memory being
\* the memory after the candidate inputs from start_state; otherwise it
\* returns true with *score = (ScoreIntegral(start_state, inputs) -
\* end_integral) + Evaluate(end_memory, new_memory).
C27_ImprovementScore ==
  \A n \in 1..Len(icalls) :
    LET c == icalls[n]
        new == EmuRun(ireq.start_state, c.inputs)
        gain == EvaluateOf(ireq.end_state, new)
    IN /\ c.improved <=> gain > 0
       /\ ~c.improved => c.score = c.before
       /\ c.improved =>
            c.score = (ScoreIntegral(ireq.start_state, c.inputs).sum
                       - ireq.end_integral) + gain

\* An iteration whose first call found an improvement and whose second
\* call, on inputs that end exactly level with the end state, found none
\* and left the first call's score in place.
C27_Witness ==
  /\ Len(icalls) >= 2
  /\ icalls[1].improved
  /\ ~icalls[2].improved
  /\ icalls[2].before # 0
  /\ icalls[2].score = icalls[1].score
  /\ EvaluateOf(ireq.end_state, EmuRun(ireq.start_state, icalls[2].inputs))
       = 0

----------------------------------------------------------------------------
(* Properties of Order.                                                    *)

\* C28: the rank of an objective (i_1..i_n) between memories a and b is
\* the sum over k of (b[i_k] - a[i_k]) / 2^k, the fold v <- (v + b[i_k] -
\* a[i_k]) / 2 from the last location to the first; the rank of a against
\* b is minus the rank of b against a; and for the objective [0,1] with
\* a = [10, 20] and b = [10, 24] it is 1.
C28_DiscountedDelta ==
  /\ ordpc \in {"ordered", "both"} =>
       LET n == Len(oorder)
           delta == [k \in 1..n |->
                       (MemAt(omem2, oorder[k]) - MemAt(omem1, oorder[k]))
                         * Pow(2, n - k)]
       IN /\ oval.den = Pow(2, n)
          /\ oval.num = SumOver(delta, 1..n)
          /\ (oorder = <<0, 1>> /\ omem1 = <<10, 20>> /\ omem2 = <<10, 24>>)
               => oval.num = oval.den
  /\ ordpc = "both" => /\ orev.den = oval.den
                       /\ orev.num = 0 - oval.num

\* Both ranks taken for the objective [0,1] between [10, 20] and
\* [10, 24].
C28_Witness ==
  /\ ordpc = "both"
  /\ oorder = <<0, 1>>
  /\ omem1 = <<10, 20>>
  /\ omem2 = <<10, 24>>
  /\ oval.num = oval.den

----------------------------------------------------------------------------
(* Properties of the normalized value and of the learned weights.          *)

\* C29: whenever the player has taken the normalized value of a memory,
\* it is a real number from 0 to 1, also when no objective has an
\* observation yet and when there are no objectives.
C29_NormalizedInUnitInterval ==
  gpc = "valued" =>
    /\ gvalue.den > 0
    /\ 0 <= gvalue.num
    /\ gvalue.num <= gvalue.den

\* C30: after WeightByExamples on a non-empty trajectory every
\* objective's weight is max(0, frac of the last memory - frac of the
\* first), frac being the number of distinct projections of the
\* trajectory below the memory's own, divided by the number of distinct
\* projections; so every weight is at least 0 and below 1, and it is 0
\* when the last projection is not above the first.
C30_WeightIsGain ==
  (wpc = "weighed" /\ Len(wmemories) > 0) =>
    \A obj \in DOMAIN wweighted :
      LET proj == [i \in 1..Len(wmemories) |->
                     Projection(wmemories[i], obj)]
          uniq == {proj[i] : i \in 1..Len(wmemories)}
          below == [i \in 1..Len(wmemories) |->
                      Cardinality({u \in uniq : LexLess(u, proj[i])})]
          gain == below[Len(wmemories)] - below[1]
          w == wweighted[obj]
      IN /\ w.den > 0
         /\ w.num * Cardinality(uniq) = Max(0, gain) * w.den
         /\ 0 <= w.num /\ w.num < w.den
         /\ ~LexLess(proj[1], proj[Len(wmemories)]) => w.num = 0

\* A trajectory that visits a value twice and after which one objective
\* has gained (weight above 0) and another has lost (weight 0).
C30_Witness ==
  /\ wpc = "weighed"
  /\ Len(wmemories) = 3
  /\ wmemories[1] = wmemories[2]
  /\ \E obj \in DOMAIN wweighted : wweighted[obj].num > 0
  /\ \E obj \in DOMAIN wweighted :
       /\ wweighted[obj].num = 0
       /\ LexLess(Projection(wmemories[3], obj),
                  Projection(wmemories[1], obj))

----------------------------------------------------------------------------
(* Properties of the objectives file.                                      *)

\* C31: the set loaded from a file just saved holds exactly the
\* objectives whose weight was not 0, each with the locations and the
\* weight it had when it was saved.
C31_SaveLoadRoundTrip ==
  fpc = "loaded" =>
    /\ DOMAIN floaded = {obj \in DOMAIN fweighted : fweighted[obj].num # 0}
    /\ \A obj \in DOMAIN floaded :
         floaded[obj].num * fweighted[obj].den
           = fweighted[obj].num * floaded[obj].den

----------------------------------------------------------------------------
(* Properties of the backtrack itself.                                     *)

\* C32: the checkpoint a backtrack attempt rewinds to is, of the
\* checkpoints at least 300 inputs back and strictly after the watermark,
\* the one with the highest movenum; when no checkpoint is both, the
\* attempt rewinds to none.
C32_MostRecentEligible ==
  [][BacktrackTime =>
       (/\ ~SomeEligible => (pc' # "bt_take" /\ bt_start' = bt_start)
        /\ pc' = "bt_take" =>
             (/\ \E i \in 1..Len(checkpoints) : checkpoints[i] = bt_start'
              /\ Len(movie) - bt_start'.movenum >= 300
              /\ bt_start'.movenum > watermark
              /\ Len(movie') = bt_start'.movenum
              /\ \A i \in 1..Len(checkpoints) :
                   (/\ Len(movie) - checkpoints[i].movenum >= 300
                    /\ checkpoints[i].movenum > watermark)
                     => checkpoints[i].movenum <= bt_start'.movenum))]_vars

\* A backtrack has rewound to a checkpoint although an earlier one was
\* after the watermark too.
C32_Witness ==
  /\ pc = "bt_take"
  /\ Len(checkpoints) >= 2
  /\ checkpoints[Len(checkpoints)] = bt_start
  /\ checkpoints[Len(checkpoints) - 1].movenum > watermark

\* C33: a backtrack that received a candidate cuts the movie to the
\* checkpoint's movenum and then commits exactly one member of the trial
\* set; the trial set starts with the segment that was cut off, annotated
\* "original", and holds no segment twice; and the original is the member
\* committed whenever no member scores strictly higher than it.
C33_OneTrialCommitted ==
  [][(/\ (pc = "maybe_backtrack" /\ pc' = "bt_take") =>
           (/\ movie' = SubSeq(movie, 1, bt_start'.movenum)
            /\ tryvec'[1] = SubSeq(movie, bt_start'.movenum + 1, Len(movie))
            /\ trysplanations'[1] = "original"
            /\ Len(trysplanations') = Len(tryvec')
            /\ \A a, b \in 1..Len(tryvec') :
                 a # b => tryvec'[a] # tryvec'[b])
      /\ (pc = "bt_take" /\ pc' = "round") =>
           (/\ \E k \in 1..Len(tryvec) :
                 /\ movie' = movie \o tryvec[k]
                 /\ subtitles' = subtitles
                      \o [j \in 1..Len(tryvec[k]) |-> trysplanations[k]]
            /\ Len(scores') = Len(tryvec)
            /\ (\A k \in 2..Len(tryvec) :
                  Score(scores'[k]) <= Score(scores'[1]))
                 => movie' = movie \o tryvec[1]))]_vars

\* A backtrack has committed the original although a replacement scored
\* as high, and the original scored below zero.
C33_Witness ==
  /\ pc = "round"
  /\ Len(scores) >= 2
  /\ movie # <<>>
  /\ subtitles[Len(subtitles)] = "original"
  /\ Score(scores[1]) < 0
  /\ \E k \in 2..Len(scores) : Score(scores[k]) = Score(scores[1])

(***************************************************************************)
(* Properties of the backtrack timer.                                      *)

\* C34: backtrack attempts follow the timer.  At the MaybeBacktrack of
\* round n <= 18 the timer stands at 19 - n, so the first attempt is made in
\* round 18; a call that makes no attempt counts the timer down by one and
\* touches nothing else; an attempt that finds a checkpoint sets the timer
\* to 18 rounds and one that finds none sets it to 1; no other step changes
\* the timer, and it is at least 1 whenever MaybeBacktrack is entered.
C34_AttemptsFollowTimer ==
  [][ /\ (pc = "maybe_backtrack" /\ rounds_until_backtrack - 1 > 0)
           => /\ rounds_until_backtrack' = rounds_until_backtrack - 1
              /\ iters' = iters + 1
              /\ pc' = "round"
              /\ UNCHANGED <<emu, movie, subtitles, checkpoints, memories>>
      /\ (BacktrackTime /\ SomeEligible)
           => rounds_until_backtrack' = TRY_BACKTRACK_EVERY \div INPUTS_PER_NEXT
      /\ (BacktrackTime /\ ~SomeEligible)
           => rounds_until_backtrack' = 1 /\ iters' = iters + 1
      /\ (pc \in {"round", "bt_take"}) => UNCHANGED rounds_until_backtrack
      /\ (pc' = "maybe_backtrack")
           => /\ rounds_until_backtrack' >= 1
              /\ (iters' <= 18 => rounds_until_backtrack' = 19 - iters')
    ]_vars

\* An attempt that finds a checkpoint, made after an earlier backtrack has
\* committed its winner and more than two timer windows into the run.
C34_Witness ==
  /\ pc = "maybe_backtrack"
  /\ rounds_until_backtrack = 1
  /\ iters > 2 * 18
  /\ SomeEligible
  /\ \E i \in 1..Len(subtitles) : subtitles[i] = "original"


(***************************************************************************)
(* Properties of the search loop of an improve request.                    *)

\* C35 as the specification states it: the loop ends at the first rejected
\* candidate, so a pass of the loop runs only while every earlier pass
\* accepted its candidate (each accepted candidate is one more element of
\* tried).
C35_StopsAtFirstRejection ==
  [][ (ii' = ii + 1) => ii = Cardinality(tried) ]_vars

\* C35, amended: a pass that accepts its candidate hands it to the next
\* pass as the current inputs, a pass that rejects hands improveme back,
\* every pass counts as one iteration, and the response is built only when
\* req.iters passes have run.
C35_ClimbsAndRestarts ==
  [][ /\ (ii' = ii + 1 /\ tried' # tried)
           => /\ tried' = tried \cup {iinputs'}
              /\ iinputs' \notin tried
              /\ Len(iinputs') >= INPUTS_PER_NEXT
      /\ (ii' = ii + 1 /\ tried' = tried) => iinputs' = ireq.improveme
      /\ (ii' # ii) => (ii' = ii + 1 /\ ii < ireq.iters /\ ipc' = "loop")
      /\ (ipc' = "built") => ii' = ireq.iters
    ]_vars

\* A pass that runs after a rejection and accepts a candidate that is not
\* improveme, in a request that has accepted before.
C35_Witness ==
  /\ ipc = "loop"
  /\ ii > Cardinality(tried)
  /\ Cardinality(tried) >= 2
  /\ iinputs \in tried
  /\ iinputs # ireq.improveme


(***************************************************************************)
(* Properties of the candidate nexts.                                      *)

\* C36: the nexts MakeNexts returns hold no duplicate and at most NFUTURES
\* candidates, among them the first INPUTS_PER_NEXT inputs of every future
\* that has as many; every other candidate is a motif of the library with
\* the explanation "backfill"; there are NFUTURES candidates or every
\* motif of the library is one; and the explanations are as many as the
\* candidates.
C36_CandidateNexts ==
  npc = "done" =>
    /\ \A a, b \in 1..Len(cnexts) : a # b => cnexts[a] # cnexts[b]
    /\ Len(cnexts) <= NFUTURES
    /\ \A i \in 1..Len(nfutures) :
         Len(nfutures[i]) >= INPUTS_PER_NEXT =>
           \E a \in 1..Len(cnexts) :
             cnexts[a] = SubSeq(nfutures[i], 1, INPUTS_PER_NEXT)
    /\ \A a \in 1..Len(cnexts) :
         \/ \E i \in 1..Len(nfutures) :
              /\ Len(nfutures[i]) >= INPUTS_PER_NEXT
              /\ cnexts[a] = SubSeq(nfutures[i], 1, INPUTS_PER_NEXT)
         \/ cnexts[a] \in DOMAIN nlib /\ cwhy[a] = <<"backfill">>
    /\ \/ Len(cnexts) = NFUTURES
       \/ \A m \in DOMAIN nlib : \E a \in 1..Len(cnexts) : cnexts[a] = m
    /\ Len(cwhy) = Len(cnexts)


(***************************************************************************)
(* Properties of the chop of the futures.                                  *)

C38_CheckpointEveryHundred ==
  (pc \in {"constructed", "round", "maybe_backtrack", "bt_take"}) =>
    { checkpoints[i].movenum : i \in 1..Len(checkpoints) }
      = { m \in 1..Len(movie) :
            /\ m - watermark > 0
            /\ (m - watermark) % CHECKPOINT_EVERY = 0 }


(***************************************************************************)
(* Properties of the emulator state along a run.                           *)

\* C39: the emulator being deterministic, the snapshot of every checkpoint
\* is the state reached by playing the first movenum inputs of the current
\* movie from power-on, and whenever the player is between two calls of
\* TakeBestAmong (constructed, at the end of a round's commit, at the end
\* of a round after MaybeBacktrack, taken, deferred or abandoned, and after
\* the rewind of a backtrack) the live emulator state is the state reached
\* by playing the whole current movie.
C39_SnapshotsFollowMovie ==
  /\ \A i \in 1..Len(checkpoints) :
       /\ checkpoints[i].movenum <= Len(movie)
       /\ checkpoints[i].save
            = EmuRun(EmuInitial, SubSeq(movie, 1, checkpoints[i].movenum))
  /\ (pc \in {"constructed", "round", "maybe_backtrack", "bt_take"})
       => emu = EmuRun(EmuInitial, movie)

\* The end of a round whose backtrack attempt found a checkpoint and no
\* replacement: nothing was rewound, the timer is reset, and checkpoints
\* exist.
C39_Witness ==
  /\ pc = "round"
  /\ iters > TRY_BACKTRACK_EVERY \div INPUTS_PER_NEXT
  /\ rounds_until_backtrack = TRY_BACKTRACK_EVERY \div INPUTS_PER_NEXT
  /\ Len(checkpoints) >= 2
  /\ Len(movie) - checkpoints[1].movenum >= MIN_BACKTRACK_DISTANCE
  /\ \A i \in 1..Len(subtitles) : subtitles[i] \in {"warmup", "ftr-0", "backfill"}


(***************************************************************************)
(* Properties of the score of a path.                                      *)

============================================================================
